---- MODULE Spec2Model ----
(***************************************************************************)
(* Dead-code scanner (DeadCodeAnalyzer) and line-range remover             *)
(* (DeadCodeRemover) of the what-the-code extension.                       *)
(*                                                                         *)
(* Text.  A file content is a sequence of tokens.  A token is one maximal  *)
(* run of word characters (an identifier, a keyword, a number), one        *)
(* punctuation character, one quoted literal, one blank " " or one line    *)
(* terminator "\n".  Spelling gives the characters of a token; the         *)
(* remover's string tests (trim, startsWith, endsWith, includes, the brace *)
(* counter) are computed on characters, the scanner's regular expressions  *)
(* on tokens (a word boundary \b lies exactly between a word token and a   *)
(* non-word neighbour).                                                    *)
(***************************************************************************)
EXTENDS Integers, Sequences, FiniteSets, TLC

VARIABLES
    disk,        \* filePath -> content on disk
    backups,     \* backup files written, in order: [filePath, content]
    issues,      \* the findings handed to removeDeadCode
    options,     \* RemovalOptions
    pc,          \* position of removeDeadCode: idle, loop, file, done
    result,      \* RemovalResult
    queue,       \* Object.entries(issuesByFile) not yet visited
    cur,         \* processFile's locals for the file being processed
    cancelled,   \* token.isCancellationRequested
    ioLog,       \* history: file system calls made by the run
    applyLog,    \* history: what each removeIssue call saw and did
    scanned,     \* scanner: what the last analyzeFile call read and returned,
                 \* or <<>>
    lastIndex,   \* scanner: lastIndex of each shared regular expression
    calls,        \* scanner: number of analyzeFile calls made so far
    prompts,     \* the answers to confirmFileRemoval, in order: [filePath, choice]
    lastAnalysisResults,  \* DeadCodeFinder.lastAnalysisResults
    finder,      \* locals of a running findDeadCode: files, allIssues, token
    cmd          \* the command being served: name, choice, count

vars == <<disk, backups, issues, options, pc, result, queue, cur, cancelled,
          ioLog, applyLog, scanned, lastIndex, calls, prompts,
          lastAnalysisResults, finder, cmd>>

----------------------------------------------------------------------------
(* Characters and tokens *)

NL == "\n"
SP == " "

IsWS(t) == t \in {SP, NL}

Punct == {"{", "}", "(", ")", "=", "=>", ";", ",", "*", "<", ">", "/", ".", "#"}

Literals == {"'m'", "'{'"}

\* what reading past either end of a text yields
EOT == "<eot>"

\* \w+ runs: everything that is neither blank, punctuation nor a literal
IsWord(t) == ~IsWS(t) /\ t \notin Punct /\ t \notin Literals /\ t # EOT

\* [a-zA-Z_$] as the first character
IsIdentStart(t) == IsWord(t) /\ t \notin {"1", "2"}

Spelling(t) ==
    CASE t = "import"    -> <<"i", "m", "p", "o", "r", "t">>
      [] t = "imported"  -> <<"i", "m", "p", "o", "r", "t", "e", "d">>
      [] t = "from"      -> <<"f", "r", "o", "m">>
      [] t = "function"  -> <<"f", "u", "n", "c", "t", "i", "o", "n">>
      [] t = "const"     -> <<"c", "o", "n", "s", "t">>
      [] t = "let"       -> <<"l", "e", "t">>
      [] t = "var"       -> <<"v", "a", "r">>
      [] t = "export"    -> <<"e", "x", "p", "o", "r", "t">>
      [] t = "default"   -> <<"d", "e", "f", "a", "u", "l", "t">>
      [] t = "return"    -> <<"r", "e", "t", "u", "r", "n">>
      [] t = "as"        -> <<"a", "s">>
      [] t = "log"       -> <<"l", "o", "g">>
      [] t = "yy"        -> <<"y", "y">>
      [] t = "Foo"       -> <<"F", "o", "o">>
      [] t = "=>"        -> <<"=", ">">>
      [] t = "'m'"       -> <<"'", "m", "'">>
      [] t = "'{'"       -> <<"'", "{", "'">>
      [] OTHER           -> <<t>>

RECURSIVE Chars(_)
\* the characters of a token sequence
Chars(s) == IF s = <<>> THEN <<>> ELSE Spelling(Head(s)) \o Chars(Tail(s))

IsPrefix(p, c) == Len(p) <= Len(c) /\ SubSeq(c, 1, Len(p)) = p

IsSuffix(p, c) == Len(p) <= Len(c) /\ SubSeq(c, Len(c) - Len(p) + 1, Len(c)) = p

\* String.prototype.includes
Includes(c, p) == \E i \in 0..(Len(c) - Len(p)) : SubSeq(c, i + 1, i + Len(p)) = p

RECURSIVE TrimStart(_)
TrimStart(c) == IF c # <<>> /\ IsWS(Head(c)) THEN TrimStart(Tail(c)) ELSE c

RECURSIVE TrimEnd(_)
TrimEnd(c) ==
    IF c # <<>> /\ IsWS(c[Len(c)]) THEN TrimEnd(SubSeq(c, 1, Len(c) - 1)) ELSE c

\* String.prototype.trim
Trim(c) == TrimEnd(TrimStart(c))

RECURSIVE Split(_)
\* content.split('\n'): the lines, at least one
Split(s) ==
    IF \A i \in 1..Len(s) : s[i] # NL THEN <<s>>
    ELSE LET i == CHOOSE k \in 1..Len(s) :
                      s[k] = NL /\ \A j \in 1..(k - 1) : s[j] # NL
         IN  <<SubSeq(s, 1, i - 1)>> \o Split(SubSeq(s, i + 1, Len(s)))

RECURSIVE Join(_)
\* lines.join('\n')
Join(ls) ==
    IF ls = <<>> THEN <<>>
    ELSE IF Len(ls) = 1 THEN ls[1]
    ELSE ls[1] \o <<NL>> \o Join(Tail(ls))

\* lines.splice(start, count) on a 0-based start
Splice(ls, start, count) ==
    SubSeq(ls, 1, start) \o SubSeq(ls, start + count + 1, Len(ls))

----------------------------------------------------------------------------
(* DeadCodeRemover: the per-finding removals *)

\* A finding (DeadCodeIssue) is [type, filePath, line, name, confidence];
\* name is the token sequence of the reported identifier.

Ok(ls) == [success |-> TRUE, content |-> Join(ls), reason |-> ""]

Fail(ls, why) == [success |-> FALSE, content |-> Join(ls), reason |-> why]

ValidIndex(ls, lineIndex) == ~(lineIndex < 0 \/ lineIndex >= Len(ls))

removeUnusedImport(ls, issue) ==
    LET lineIndex == issue.line - 1 IN
    IF ~ValidIndex(ls, lineIndex) THEN Fail(ls, "Invalid line number")
    ELSE IF ~IsPrefix(Spelling("import"), Trim(Chars(ls[lineIndex + 1])))
         THEN Fail(ls, "Line is not an import statement")
         ELSE Ok(Splice(ls, lineIndex, 1))

Declares(line, kw, name) == Includes(line, Spelling(kw) \o <<SP>> \o Chars(name))

\* the test of the line's end lost
removeUnusedVariable_NoTerminator(ls, issue) ==
    LET lineIndex == issue.line - 1 IN
    IF ~ValidIndex(ls, lineIndex) THEN Fail(ls, "Invalid line number")
    ELSE LET line == Chars(ls[lineIndex + 1]) IN
         IF \/ Declares(line, "const", issue.name)
            \/ Declares(line, "let", issue.name)
            \/ Declares(line, "var", issue.name)
         THEN Ok(Splice(ls, lineIndex, 1))
         ELSE Fail(ls, "Could not safely remove variable")

removeUnusedVariable(ls, issue) ==
    LET lineIndex == issue.line - 1 IN
    IF ~ValidIndex(ls, lineIndex) THEN Fail(ls, "Invalid line number")
    ELSE LET line == Chars(ls[lineIndex + 1]) IN
         IF /\ \/ Declares(line, "const", issue.name)
               \/ Declares(line, "let", issue.name)
               \/ Declares(line, "var", issue.name)
            /\ \/ IsSuffix(<<";">>, Trim(line))
               \/ IsSuffix(<<",">>, Trim(line))
         THEN Ok(Splice(ls, lineIndex, 1))
         ELSE Fail(ls, "Could not safely remove variable")

RECURSIVE ScanBraces(_, _, _, _)
\* the inner for-of loop of findFunctionEnd over the characters c of one
\* line: [hit |-> the balance closed on this line, count, found]
ScanBraces(c, k, braceCount, foundOpenBrace) ==
    IF k > Len(c)
    THEN [hit |-> FALSE, count |-> braceCount, found |-> foundOpenBrace]
    ELSE IF c[k] = "{" THEN ScanBraces(c, k + 1, braceCount + 1, TRUE)
    ELSE IF c[k] = "}"
         THEN IF foundOpenBrace /\ braceCount - 1 = 0
              THEN [hit |-> TRUE, count |-> 0, found |-> TRUE]
              ELSE ScanBraces(c, k + 1, braceCount - 1, foundOpenBrace)
    ELSE ScanBraces(c, k + 1, braceCount, foundOpenBrace)

RECURSIVE FunctionEndFrom(_, _, _, _)
\* the outer loop of findFunctionEnd, i a 0-based line index
FunctionEndFrom(ls, i, braceCount, foundOpenBrace) ==
    IF i >= Len(ls) THEN -1
    ELSE LET r == ScanBraces(Chars(ls[i + 1]), 1, braceCount, foundOpenBrace) IN
         IF r.hit THEN i ELSE FunctionEndFrom(ls, i + 1, r.count, r.found)

findFunctionEnd(ls, startIndex) == FunctionEndFrom(ls, startIndex, 0, FALSE)

\* the closing line kept
removeUnusedFunction_KeepEnd(ls, issue) ==
    LET lineIndex == issue.line - 1 IN
    IF ~ValidIndex(ls, lineIndex) THEN Fail(ls, "Invalid line number")
    ELSE LET functionEnd == findFunctionEnd(ls, lineIndex) IN
         IF functionEnd = -1
         THEN Fail(ls, "Could not determine function boundaries")
         ELSE Ok(Splice(ls, lineIndex, functionEnd - lineIndex))

removeUnusedFunction(ls, issue) ==
    LET lineIndex == issue.line - 1 IN
    IF ~ValidIndex(ls, lineIndex) THEN Fail(ls, "Invalid line number")
    ELSE LET functionEnd == findFunctionEnd(ls, lineIndex) IN
         IF functionEnd = -1
         THEN Fail(ls, "Could not determine function boundaries")
         ELSE Ok(Splice(ls, lineIndex, functionEnd - lineIndex + 1))

removeUnusedComponent(ls, issue) == removeUnusedFunction(ls, issue)

removeIssue(content, issue) ==
    LET ls == Split(content) IN
    CASE issue.type = "unused-import"    -> removeUnusedImport(ls, issue)
      [] issue.type = "unused-variable"  -> removeUnusedVariable(ls, issue)
      [] issue.type = "unused-function"  -> removeUnusedFunction(ls, issue)
      [] issue.type = "unused-component" -> removeUnusedComponent(ls, issue)
      [] OTHER -> [success |-> FALSE, content |-> content,
                   reason |-> "Unsupported issue type"]

RECURSIVE InsertDesc(_, _)
\* place x after every element whose line is >= x.line (keeps equal lines
\* in their incoming order)
InsertDesc(x, s) ==
    IF s = <<>> THEN <<x>>
    ELSE IF Head(s).line >= x.line THEN <<Head(s)>> \o InsertDesc(x, Tail(s))
    ELSE <<x>> \o s

RECURSIVE SortByLineDesc(_)
\* issues.sort((a, b) => b.line - a.line): stable, descending by line
SortByLineDesc(s) ==
    IF s = <<>> THEN <<>>
    ELSE InsertDesc(s[Len(s)], SortByLineDesc(SubSeq(s, 1, Len(s) - 1)))

RECURSIVE FileOrder(_)
\* Object.keys(groupIssuesByFile(issues)): paths in order of first occurrence
FileOrder(s) ==
    IF s = <<>> THEN <<>>
    ELSE LET front == FileOrder(SubSeq(s, 1, Len(s) - 1))
             f == s[Len(s)].filePath IN
         IF \E i \in 1..Len(front) : front[i] = f THEN front ELSE Append(front, f)

\* groupIssuesByFile(issues)[f]
IssuesOf(s, f) == SelectSeq(s, LAMBDA i : i.filePath = f)

\* issues.filter(issue => issue.confidence === 'high')
HighOnly(s) == SelectSeq(s, LAMBDA i : i.confidence = "high")

\* the filter applied to nothing
filteredIssues_All(s, opts) == s

\* lines 39-43
filteredIssues(s, opts) == IF opts.onlyHighConfidence THEN HighOnly(s) ELSE s

----------------------------------------------------------------------------
(* DeadCodeAnalyzer: the regular expressions, on tokens *)

Tok(s, i) == IF i >= 1 /\ i <= Len(s) THEN s[i] ELSE EOT

RECURSIVE SkipWS(_, _)
\* \s* from i: the index of the first token at or after i that is not blank
SkipWS(s, i) == IF i <= Len(s) /\ IsWS(s[i]) THEN SkipWS(s, i + 1) ELSE i

\* ^ under the m flag
LineStart(s, p) == p = 1 \/ Tok(s, p - 1) = NL

\* content.substring(0, index).split('\n').length, index the offset of token p
LineNumber(s, p) == 1 + Cardinality({ i \in 1..(p - 1) : Tok(s, i) = NL })

\* (?:^|\s)KEYWORD at p: the index of the keyword, 0 when there is no match.
\* The alternative ^ is tried first; a blank or line terminator at p is
\* consumed by \s and belongs to the match.
DeclPrefix(s, p, keywords) ==
    IF LineStart(s, p) /\ Tok(s, p) \in keywords THEN p
    ELSE IF IsWS(Tok(s, p)) /\ Tok(s, p + 1) \in keywords THEN p + 1
    ELSE 0

VarKeywords == {"const", "let", "var"}

StartsWithEq(t) == Head(Spelling(t)) = "="

HasChar(t, c) == \E i \in DOMAIN Spelling(t) : Spelling(t)[i] = c

IsUpperStart(t) ==
    IsIdentStart(t) /\ Head(Spelling(t)) \in
        {"A", "B", "C", "D", "E", "F", "G", "H", "I", "J", "K", "L", "M",
         "N", "O", "P", "Q", "R", "S", "T", "U", "V", "W", "X", "Y", "Z"}

\* a token holding one of the characters cs
HasAny(t, cs) == \E c \in cs : HasChar(t, c)

\* the least index >= i whose token holds one of the characters cs, 0 when
\* there is none
FirstFrom(s, i, cs) ==
    IF \E j \in i..Len(s) : HasAny(s[j], cs)
    THEN CHOOSE j \in i..Len(s) :
             HasAny(s[j], cs) /\ \A k \in i..(j - 1) : ~HasAny(s[k], cs)
    ELSE 0

NoMatch == [end |-> 0]

\* KEYWORD\s+(identifier) after DeclPrefix: the index of the identifier or 0
DeclName(s, p, keywords) ==
    LET Ident(q, k) ==
            IF q > 0 /\ k > q + 1 /\ IsIdentStart(Tok(s, k)) THEN k ELSE 0
        Keyword(q) == Ident(q, SkipWS(s, q + 1))
    IN  Keyword(DeclPrefix(s, p, keywords))

\* functionRegex (line 104) at p
functionRegexAt(s, p) ==
    LET Paren(k, m) ==
            IF k > 0 /\ Tok(s, m) = "("
            THEN [index |-> p, name |-> <<s[k]>>, end |-> m + 1]
            ELSE NoMatch
        Named(k) == Paren(k, SkipWS(s, k + 1))
    IN  Named(DeclName(s, p, {"function"}))

\* arrowFunctionRegex (line 105) at p
arrowFunctionRegexAt(s, p) ==
    LET Arrow(k, m, o, r, a) ==
            IF /\ k > 0 /\ Tok(s, m) = "=" /\ Tok(s, o) = "(" /\ r > 0
               /\ Tok(s, a) = "=>"
            THEN [index |-> p, name |-> <<s[k]>>, end |-> a + 1]
            ELSE NoMatch
        Closed(k, m, o, r) == Arrow(k, m, o, r, SkipWS(s, r + 1))
        Params(k, m, o) == Closed(k, m, o, FirstFrom(s, o + 1, {")"}))
        Async(k, m, n) ==
            Params(k, m, IF Tok(s, n) = "async" /\ IsWS(Tok(s, n + 1))
                         THEN SkipWS(s, n + 1) ELSE n)
        Eq(k, m) == Async(k, m, SkipWS(s, m + 1))
        Named(k) == Eq(k, SkipWS(s, k + 1))
    IN  Named(DeclName(s, p, VarKeywords))

\* variableRegex (line 106) at p
variableRegexAt(s, p) ==
    LET Eq(k, m) ==
            IF k > 0 /\ Tok(s, m) # EOT /\ StartsWithEq(Tok(s, m))
            THEN [index |-> p, name |-> <<s[k]>>, end |-> m + 1]
            ELSE NoMatch
        Named(k) == Eq(k, SkipWS(s, k + 1))
    IN  Named(DeclName(s, p, VarKeywords))

\* componentRegex (line 107) at p
componentRegexAt(s, p) ==
    LET Follows(k, m) ==
            IF /\ k > 0 /\ IsUpperStart(Tok(s, k)) /\ Tok(s, m) # EOT
               /\ (Tok(s, m) = "(" \/ StartsWithEq(Tok(s, m)))
            THEN [index |-> p, name |-> <<s[k]>>, end |-> m + 1]
            ELSE NoMatch
        Named(k) == Follows(k, SkipWS(s, k + 1))
    IN  Named(DeclName(s, p, {"function", "const"}))

\* \s*from\s*['"]([^'"]+)['"] from r: the index after the match or 0
FromClause(s, r) ==
    LET Quoted(j, l) ==
            IF Tok(s, j) = "from" /\ Tok(s, l) \in Literals THEN l + 1 ELSE 0
        From(j) == Quoted(j, SkipWS(s, j + 1))
    IN  From(SkipWS(s, r))

RECURSIVE RunEnd(_, _, _)
\* the index after the longest run from i of tokens none of which is blank
\* or in the set stop
RunEnd(s, i, stop) ==
    IF i <= Len(s) /\ ~IsWS(s[i]) /\ s[i] \notin stop
    THEN RunEnd(s, i + 1, stop) ELSE i

\* importRegex (line 103) at p.  The three alternatives of the optional
\* group are tried in order, then the group is skipped.
importRegexAt(s, p) ==
    LET none == [index |-> p, named |-> <<>>, default |-> <<>>,
                 namespace |-> <<>>, end |-> 0]
        OrElse(m1, m2) == IF m1.end > 0 THEN m1 ELSE m2
        \* \{([^}]*)\}
        Braces(a, c) ==
            IF Tok(s, a) = "{" /\ c > 0
            THEN [none EXCEPT !.named = SubSeq(s, a + 1, c - 1),
                              !.end = FromClause(s, c + 1)]
            ELSE none
        \* ([^,{}\s]+)
        Default(a, b) ==
            IF b > a
            THEN [none EXCEPT !.default = SubSeq(s, a, b - 1),
                              !.end = FromClause(s, b)]
            ELSE none
        \* \*\s+as\s+([^\s]+)
        StarAs(a, a2, a3, b3) ==
            IF /\ Tok(s, a) = "*" /\ a2 > a + 1 /\ Tok(s, a2) = "as"
               /\ a3 > a2 + 1 /\ b3 > a3
            THEN [none EXCEPT !.namespace = SubSeq(s, a3, b3 - 1),
                              !.end = FromClause(s, b3)]
            ELSE none
        Name(a, a2, a3) == StarAs(a, a2, a3, RunEnd(s, a3, {}))
        As(a, a2) == Name(a, a2, SkipWS(s, a2 + 1))
        Group(a) ==
            IF ~(p <= Len(s) /\ IsSuffix(Spelling("import"), Spelling(s[p]))
                 /\ a > p + 1)
            THEN none
            ELSE OrElse(Braces(a, FirstFrom(s, a + 1, {"}"})),
                 OrElse(Default(a, RunEnd(s, a, {",", "{", "}"})),
                 OrElse(As(a, SkipWS(s, a + 1)),
                        [none EXCEPT !.end = FromClause(s, a)])))
    IN  Group(SkipWS(s, p + 1))

\* classRegex (line 280, mark ".") and idRegex (line 281, mark "#") at p
selectorRegexAt(mark, s, p) ==
    LET Brace(m) ==
            IF Tok(s, p) = mark /\ IsIdentStart(Tok(s, p + 1)) /\ Tok(s, m) = "{"
            THEN [index |-> p, name |-> <<s[p + 1]>>, end |-> m + 1]
            ELSE NoMatch
    IN  Brace(SkipWS(s, p + 2))

RegexAt(rx, s, p) ==
    CASE rx = "function"  -> functionRegexAt(s, p)
      [] rx = "arrow"     -> arrowFunctionRegexAt(s, p)
      [] rx = "variable"  -> variableRegexAt(s, p)
      [] rx = "component" -> componentRegexAt(s, p)
      [] rx = "import"    -> importRegexAt(s, p)
      [] rx = "class"     -> selectorRegexAt(".", s, p)
      [] rx = "id"        -> selectorRegexAt("#", s, p)

RECURSIVE ExecAll(_, _, _)
\* while ((match = regex.exec(content)) !== null): the matches from
\* lastIndex = the offset of token p on, leftmost first, each search
\* resuming where the previous match ended
ExecAll(rx, s, p) ==
    IF p > Len(s) THEN <<>>
    ELSE LET Resume(mt) ==
                 IF mt.end > 0 THEN <<mt>> \o ExecAll(rx, s, mt.end)
                 ELSE ExecAll(rx, s, p + 1)
         IN  Resume(RegexAt(rx, s, p))

----------------------------------------------------------------------------
(* DeadCodeAnalyzer: the usage checks *)

\* two texts put together: word characters that become adjacent form one word
Glue(a, b) ==
    IF a # <<>> /\ b # <<>> /\ IsWord(a[Len(a)]) /\ IsWord(Head(b))
    THEN SubSeq(a, 1, Len(a) - 1) \o <<a[Len(a)] \o Head(b)>> \o Tail(b)
    ELSE a \o b

\* what is left of the last token of a match that ends inside it
Remainder(t) == IF t = "=>" THEN <<">">> ELSE <<>>

\* (?:^|\s)function\s+NAME\s*\([^{]*\{ at p (line 386): the index after the
\* match or 0
FunctionHeaderAt(s, p, name) ==
    LET Body(k, m, b) ==
            IF k > 0 /\ <<s[k]>> = name /\ Tok(s, m) = "(" /\ b > 0
            THEN b + 1 ELSE 0
        Paren(k, m) == Body(k, m, FirstFrom(s, m + 1, {"{"}))
        Named(k) == Paren(k, SkipWS(s, k + 1))
    IN  Named(DeclName(s, p, {"function"}))

\* (?:^|\s)(?:const|let|var)\s+NAME\s*= at p (line 389)
BindingHeaderAt(s, p, name) ==
    LET Eq(k, m) ==
            IF /\ k > 0 /\ <<s[k]>> = name /\ Tok(s, m) # EOT
               /\ StartsWithEq(Tok(s, m))
            THEN m + 1 ELSE 0
        Named(k) == Eq(k, SkipWS(s, k + 1))
    IN  Named(DeclName(s, p, VarKeywords))

\* (?:^|\s)(?:const|let|var)\s+NAME\s*=.*?[;\n] at p (line 404)
DeclarationAt(s, p, name) ==
    LET End(h, e) == IF h > 0 /\ e > 0 THEN e + 1 ELSE 0
        Header(h) == End(h, FirstFrom(s, h, {";", "\n"}))
    IN  Header(BindingHeaderAt(s, p, name))

\* (?:^|\s)(?:function\s+|const\s+)NAME\s* at p (line 427)
ComponentHeaderAt(s, p, name) ==
    LET Named(k) == IF k > 0 /\ <<s[k]>> = name THEN SkipWS(s, k + 1) ELSE 0
    IN  Named(DeclName(s, p, {"function", "const"}))

\* ^import.*$ at p (line 368)
ImportLineAt(s, p) ==
    LET End(e) == IF e > 0 THEN e ELSE Len(s) + 1
    IN  IF LineStart(s, p) /\ IsPrefix(Spelling("import"), Spelling(s[p]))
        THEN End(FirstFrom(s, p, {"\n"})) ELSE 0

PatternAt(pat, s, p, name) ==
    CASE pat = "functionHeader"  -> FunctionHeaderAt(s, p, name)
      [] pat = "bindingHeader"   -> BindingHeaderAt(s, p, name)
      [] pat = "declaration"     -> DeclarationAt(s, p, name)
      [] pat = "componentHeader" -> ComponentHeaderAt(s, p, name)
      [] pat = "importLine"      -> ImportLineAt(s, p)

RECURSIVE Replace(_, _, _, _)
\* content.replace(pattern, '') under the g flag, from token p on
Replace(pat, s, p, name) ==
    IF p > Len(s) THEN <<>>
    ELSE LET Rest(e) ==
                 IF e > p
                 THEN Glue(IF pat = "bindingHeader" THEN Remainder(s[e - 1])
                           ELSE <<>>,
                           Replace(pat, s, e, name))
                 ELSE Glue(<<s[p]>>, Replace(pat, s, p + 1, name))
         IN  Rest(PatternAt(pat, s, p, name))

\* new RegExp(`\\b${name}\\b`).test(text)
WordOccurs(text, name) ==
    \E i \in 1..Len(text) :
        /\ i + Len(name) - 1 <= Len(text)
        /\ SubSeq(text, i, i + Len(name) - 1) = name
        /\ IsWord(Tok(text, i - 1)) # IsWord(name[1])
        /\ IsWord(Tok(text, i + Len(name))) # IsWord(name[Len(name)])

\* new RegExp(`\\b${name}\\s*\\(`).test(text)
CallOccurs(text, name) ==
    \E i \in 1..Len(text) :
        /\ <<text[i]>> = name
        /\ IsWord(Tok(text, i - 1)) # IsWord(name[1])
        /\ Tok(text, SkipWS(text, i + 1)) = "("

\* new RegExp(`<${name}[\\s>/<]`).test(text)
JsxOccurs(text, name) ==
    \E i \in 1..Len(text) :
        /\ text[i] = "<"
        /\ <<Tok(text, i + 1)>> = name
        /\ Tok(text, i + 2) \in {SP, NL, ">", "/", "<"}

\* exportRegex.test(content) from lastIndex 0 (lines 108, 379)
exportRegexTest(s) ==
    \E i \in 1..Len(s) :
        /\ IsSuffix(Spelling("export"), Spelling(s[i]))
        /\ SkipWS(s, i + 1) > i + 1
        /\ IsIdentStart(Tok(s, SkipWS(s, i + 1)))

ExportKeywords == {"function", "const", "class", "interface", "type"}

\* exportRegex (line 108) at i: the index of the last token of the match, 0
\* when there is none.  Each optional group is taken when what follows it
\* then matches, and left out otherwise.
exportRegexAt(s, i) ==
    LET OrElse(a, b) == IF a > 0 THEN a ELSE b
        Ident(k) == IF IsIdentStart(Tok(s, k)) THEN k ELSE 0
        Declared(k, k2) ==
            IF Tok(s, k) \in ExportKeywords /\ k2 > k + 1 THEN Ident(k2) ELSE 0
        Keyword(k) == OrElse(Declared(k, SkipWS(s, k + 1)), Ident(k))
        Defaulted(k, k2) ==
            IF Tok(s, k) = "default" /\ k2 > k + 1 THEN Keyword(k2) ELSE 0
        Default(k) == OrElse(Defaulted(k, SkipWS(s, k + 1)), Keyword(k))
        Export(k) == IF k > i + 1 THEN Default(k) ELSE 0
    IN  IF IsSuffix(Spelling("export"), Spelling(Tok(s, i)))
        THEN Export(SkipWS(s, i + 1)) ELSE 0

\* exportRegex.lastIndex after exportRegex.test(content) from lastIndex 0
\* (lines 379-380): the end of the leftmost match, 0 when there is none
exportLastIndex(s) ==
    IF \E i \in 1..Len(s) : exportRegexAt(s, i) > 0
    THEN exportRegexAt(s, CHOOSE i \in 1..Len(s) :
             exportRegexAt(s, i) > 0 /\ \A j \in 1..(i - 1) : exportRegexAt(s, j) = 0)
    ELSE 0

\* lines 379-380 and 417-418
isExported(name, content) ==
    exportRegexTest(content) /\ Includes(Chars(content), Chars(name))

\* the import lines are not taken out before the search
isImportUsed_NoStrip(importName, content) ==
    IF importName = <<>> THEN TRUE ELSE WordOccurs(content, importName)

\* lines 362-371
isImportUsed(importName, content) ==
    IF importName = <<>> THEN TRUE
    ELSE WordOccurs(Replace("importLine", content, 1, <<>>), importName)

isFunctionUsed(functionName, content) ==
    IF functionName = <<>> THEN TRUE
    ELSE IF isExported(functionName, content) THEN TRUE
    ELSE CallOccurs(
             Replace("bindingHeader",
                     Replace("functionHeader", content, 1, functionName),
                     1, functionName),
             functionName)

isVariableUsed(variableName, content) ==
    IF variableName = <<>> THEN TRUE
    ELSE WordOccurs(Replace("declaration", content, 1, variableName), variableName)

isComponentUsed(componentName, content) ==
    IF componentName = <<>> THEN TRUE
    ELSE IF isExported(componentName, content) THEN TRUE
    ELSE \/ JsxOccurs(content, componentName)
         \/ WordOccurs(Replace("componentHeader", content, 1, componentName),
                       componentName)

\* lines 325-346: every path returns true
isCSSClassUsed(className, cssFilePath) == TRUE

\* lines 348-360: every path returns true
isCSSIdUsed(idName, cssFilePath) == TRUE

----------------------------------------------------------------------------
(* DeadCodeAnalyzer: the scans.  Each loop over a shared regular expression *)
(* resumes at that expression's lastIndex.                                  *)

\* the regular expressions that are fields of the analyzer (lines 103-108)
Regexes == {"import", "function", "arrow", "variable", "component", "export"}

\* the cursors are left where the previous scan left them
resetRegexState_Keep(li) == li

\* lines 94-101
resetRegexState(li) == [rx \in DOMAIN li |-> 0]

Finding(t, f, l, n, c) ==
    [type |-> t, filePath |-> f, line |-> l, name |-> n, confidence |-> c,
     category |-> "dead-code"]

RECURSIVE SplitComma(_)
\* namedImports.split(',')
SplitComma(s) ==
    LET At(i) ==
            IF i = 0 THEN <<s>>
            ELSE <<SubSeq(s, 1, i - 1)>> \o SplitComma(SubSeq(s, i + 1, Len(s)))
    IN  At(FirstFrom(s, 1, {","}))

\* namedImports.split(',').map(imp => imp.trim()).filter(Boolean)
ImportNames(named) ==
    LET Trimmed(pieces) == [i \in 1..Len(pieces) |-> Trim(pieces[i])]
    IN  SelectSeq(Trimmed(SplitComma(named)), LAMBDA n : n # <<>>)

\* the findings of one match of importRegex (lines 138-186)
ImportFindings(mt, content, filePath) ==
    LET mk(n) == Finding("unused-import", filePath,
                         LineNumber(content, mt.index), n, "high")
        Each(ns) == [i \in 1..Len(ns) |-> mk(ns[i])]
    IN  (IF mt.named # <<>>
         THEN Each(SelectSeq(ImportNames(mt.named),
                             LAMBDA n : ~isImportUsed(n, content)))
         ELSE <<>>)
        \o (IF mt.default # <<>> /\ ~isImportUsed(mt.default, content)
            THEN <<mk(mt.default)>> ELSE <<>>)
        \o (IF mt.namespace # <<>> /\ ~isImportUsed(mt.namespace, content)
            THEN <<mk(mt.namespace)>> ELSE <<>>)

RECURSIVE Flatten(_)
Flatten(ss) == IF ss = <<>> THEN <<>> ELSE Head(ss) \o Flatten(Tail(ss))

findUnusedImports(content, filePath, li) ==
    LET Each(ms) == [i \in 1..Len(ms) |-> ImportFindings(ms[i], content, filePath)]
    IN  Flatten(Each(ExecAll("import", content, li["import"] + 1)))

Unused_High(un, type, content, filePath) ==
    [i \in 1..Len(un) |->
        Finding(type, filePath, LineNumber(content, un[i].index), un[i].name,
                "high")]

\* the issues.push shared by lines 198-208, 215-225, 238-248 and 261-271:
\* one medium-confidence finding per match that is not used
Unused(un, type, content, filePath) ==
    [i \in 1..Len(un) |->
        Finding(type, filePath, LineNumber(content, un[i].index), un[i].name,
                "medium")]

findUnusedFunctions(content, filePath, li) ==
    LET NotUsed(ms) == SelectSeq(ms, LAMBDA mt : ~isFunctionUsed(mt.name, content))
    IN  Unused(NotUsed(ExecAll("function", content, li["function"] + 1)),
               "unused-function", content, filePath)
        \o Unused(NotUsed(ExecAll("arrow", content, li["arrow"] + 1)),
                  "unused-function", content, filePath)

findUnusedVariables(content, filePath, li) ==
    LET NotUsed(ms) == SelectSeq(ms, LAMBDA mt : ~isVariableUsed(mt.name, content))
    IN  Unused(NotUsed(ExecAll("variable", content, li["variable"] + 1)),
               "unused-variable", content, filePath)

findUnusedComponents(content, filePath, li) ==
    LET NotUsed(ms) == SelectSeq(ms, LAMBDA mt : ~isComponentUsed(mt.name, content))
    IN  Unused(NotUsed(ExecAll("component", content, li["component"] + 1)),
               "unused-component", content, filePath)

\* lines 277-323: classRegex and idRegex are made anew by every call
findUnusedCSSSelectors(content, filePath) ==
    LET NoClass(ms) == SelectSeq(ms, LAMBDA mt : ~isCSSClassUsed(mt.name, filePath))
        NoId(ms) == SelectSeq(ms, LAMBDA mt : ~isCSSIdUsed(mt.name, filePath))
    IN  Unused(NoClass(ExecAll("class", content, 1)), "unused-variable",
               content, filePath)
        \o Unused(NoId(ExecAll("id", content, 1)), "unused-variable",
                  content, filePath)

analyzeJavaScriptFile(content, filePath, li) ==
    findUnusedImports(content, filePath, li)
    \o findUnusedFunctions(content, filePath, li)
    \o findUnusedVariables(content, filePath, li)

analyzeReactFile(content, filePath, li) ==
    findUnusedComponents(content, filePath, li)
    \o analyzeJavaScriptFile(content, filePath, li)

\* lines 127-132
analyzeCSSFile(content, filePath) == findUnusedCSSSelectors(content, filePath)

\* path.extname(filePath) of the paths the scanner is given
extname(filePath) ==
    CASE filePath = "a.ts"   -> <<".", "t", "s">>
      [] filePath = "b.tsx"  -> <<".", "t", "s", "x">>
      [] filePath = "c.JS"   -> <<".", "J", "S">>
      [] filePath = "d.mjs"  -> <<".", "m", "j", "s">>
      [] filePath = "e.Jsx"  -> <<".", "J", "s", "x">>
      [] filePath = "f.css"  -> <<".", "c", "s", "s">>
      [] filePath = "g.Scss" -> <<".", "S", "c", "s", "s">>
      [] filePath = "h.sass" -> <<".", "s", "a", "s", "s">>
      [] filePath = "i.less" -> <<".", "l", "e", "s", "s">>
      [] filePath = "j.txt"  -> <<".", "t", "x", "t">>
      [] filePath = "lib.ts"  -> <<".", "t", "s">>
      [] filePath = "none.js" -> <<".", "j", "s">>
      [] OTHER -> <<>>

\* String.prototype.toLowerCase
toLowerCase(cs) ==
    [i \in DOMAIN cs |->
        CASE cs[i] = "J" -> "j"
          [] cs[i] = "S" -> "s"
          [] OTHER -> cs[i]]

\* the extension is kept as it is written
ExtOf_CaseSensitive(filePath) == extname(filePath)

\* path.extname(filePath).toLowerCase()
ExtOf(filePath) == toLowerCase(extname(filePath))

\* lines 436-439
isJavaScriptFile(filePath) ==
    ExtOf(filePath) \in {<<".", "j", "s">>, <<".", "t", "s">>, <<".", "m", "j", "s">>}

\* lines 441-444
isReactFile(filePath) ==
    ExtOf(filePath) \in {<<".", "j", "s", "x">>, <<".", "t", "s", "x">>}

\* lines 446-449
isCSSFile(filePath) ==
    ExtOf(filePath) \in {<<".", "c", "s", "s">>, <<".", "s", "c", "s", "s">>,
                         <<".", "s", "a", "s", "s">>, <<".", "l", "e", "s", "s">>}

\* lines 56-73 of analyzeFile: what is returned for a file that was read
analyzeFile(filePath, content, li) ==
    IF Trim(content) = <<>> THEN <<>>
    ELSE LET Dispatch(reset) ==
                 IF isJavaScriptFile(filePath)
                 THEN analyzeJavaScriptFile(content, filePath, reset)
                 ELSE IF isReactFile(filePath)
                 THEN analyzeReactFile(content, filePath, reset)
                 ELSE IF isCSSFile(filePath)
                 THEN analyzeCSSFile(content, filePath)
                 ELSE <<>>
         IN  Dispatch(resetRegexState(li))

\* a usage check that tests exportRegex ran: a loop of lines 194-227 or
\* 257-273 had a match
UsageChecked(filePath, content, li) ==
    \E rx \in {"function", "arrow"}
              \cup (IF isReactFile(filePath) THEN {"component"} ELSE {}) :
        ExecAll(rx, content, li[rx] + 1) # <<>>

\* lastIndex of the shared regular expressions when analyzeFile returns for
\* a file that was read: a loop that ran to its end left 0, the last
\* exportRegex.test left the end of its match
lastIndexAfter(filePath, content, li) ==
    IF Trim(content) = <<>> THEN li
    ELSE LET After(reset) ==
                 IF isJavaScriptFile(filePath) \/ isReactFile(filePath)
                 THEN [rx \in DOMAIN reset |->
                          IF rx # "export" THEN 0
                          ELSE IF UsageChecked(filePath, content, reset)
                               THEN exportLastIndex(content)
                               ELSE reset[rx]]
                 ELSE reset
         IN  After(resetRegexState(li))

----------------------------------------------------------------------------
(* DeadCodeRemover.removeDeadCode as a state machine *)

Files == {"a.ts", "b.tsx"}

IssueTypes == {"unused-import", "unused-variable", "unused-function",
               "unused-component", "unused-route"}

\* the answers of the modal prompt of confirmFileRemoval: one of its buttons,
\* or undefined when the dialog is dismissed
PromptChoices == {"Yes, Remove", "Skip File", "undefined"}

\* a dismissed prompt taken for a consent
confirmFileRemoval_NotSkip(choice) == choice # "Skip File"

\* line 318
confirmFileRemoval(choice) == choice = "Yes, Remove"

\* lines 76-82: when confirmEach is set the prompt of file f is shown and
\* answered so that the file is processed
Confirmed(f) ==
    IF options.confirmEach
    THEN \E choice \in PromptChoices :
            /\ confirmFileRemoval(choice)
            /\ prompts' = Append(prompts, [filePath |-> f, choice |-> choice])
    ELSE prompts' = prompts

\* findDeadCode is not running
NoScan == [files |-> <<>>, allIssues |-> <<>>, token |-> FALSE,
           analyzed |-> <<>>]

\* no call of removeDeadCode has returned
NoCall == [made |-> FALSE, issues |-> <<>>,
           options |-> [createBackup |-> FALSE, confirmEach |-> FALSE,
                        onlyHighConfidence |-> FALSE, dryRun |-> FALSE],
           complete |-> FALSE]

\* no command is being served
NoCommand == [name |-> "", choice |-> "", count |-> 0, prior |-> NoCall]

\* the extension after activate: no scan was run, no command is served
ExtensionIdle ==
    /\ lastAnalysisResults = <<>>
    /\ finder = NoScan
    /\ cmd = NoCommand

NoFile == [filePath |-> "", originalContent |-> <<>>, modifiedContent |-> <<>>,
           sortedIssues |-> <<>>,
           fileResult |-> [removedCount |-> 0, modified |-> FALSE, errors |-> <<>>]]

FreshResult == [success |-> TRUE, removedCount |-> 0, errors |-> <<>>,
                modifiedFiles |-> <<>>]

\* the text of 1-based line n of content, <<"<none>">> when there is none
LineAt(content, n) ==
    LET ls == Split(content) IN IF n >= 1 /\ n <= Len(ls) THEN ls[n] ELSE <<"<none>">>

\* lines 26-52: filter, early return, grouping
Start ==
    /\ pc = "idle"
    /\ LET fi == filteredIssues(issues, options) IN
       IF Len(fi) = 0
       THEN pc' = "done" /\ queue' = <<>>
       ELSE pc' = "loop" /\ queue' = FileOrder(fi)
    /\ result' = FreshResult
    /\ UNCHANGED <<disk, backups, issues, options, cur, cancelled, ioLog,
                   applyLog, scanned,
                   lastIndex, calls,
                   prompts, lastAnalysisResults, finder, cmd>>

\* the user presses Cancel on the progress notification
Cancel ==
    /\ pc \in {"loop", "file"}
    /\ ~cancelled
    /\ cancelled' = TRUE
    /\ UNCHANGED <<disk, backups, issues, options, pc, result, queue, cur,
                   ioLog, applyLog, scanned,
                   lastIndex, calls,
                   prompts, lastAnalysisResults, finder, cmd>>

\* lines 63-66: the token is seen cancelled at the head of the loop
CancelBreak ==
    /\ pc = "loop" /\ queue # <<>> /\ cancelled
    /\ result' = [result EXCEPT !.success = FALSE]
    /\ pc' = "done"
    /\ UNCHANGED <<disk, backups, issues, options, queue, cur, cancelled,
                   ioLog, applyLog, scanned,
                   lastIndex, calls,
                   prompts, lastAnalysisResults, finder, cmd>>

\* lines 76-81: confirmFileRemoval answered 'Skip File' or dismissed
SkipFile ==
    /\ pc = "loop" /\ queue # <<>> /\ ~cancelled
    /\ options.confirmEach
    /\ \E choice \in PromptChoices :
          /\ ~confirmFileRemoval(choice)
          /\ prompts' = Append(prompts, [filePath |-> Head(queue),
                                         choice |-> choice])
    /\ queue' = Tail(queue)
    /\ UNCHANGED <<disk, backups, issues, options, pc, result, cur, cancelled,
                   ioLog, applyLog, scanned,
                   lastIndex, calls,
                   lastAnalysisResults, finder, cmd>>

\* the file's error taken for a failure of the run
AbortFile_Fatal(fileResult) ==
    LET errs == Append(fileResult.errors, <<"File processing error", "io">>) IN
    result' = [result EXCEPT
                 !.success = FALSE,
                 !.removedCount = @ + fileResult.removedCount,
                 !.modifiedFiles = IF fileResult.modified
                                   THEN Append(@, Head(queue)) ELSE @,
                 !.errors = @ \o errs]

\* processFile's catch (lines 165-167) reached from the merge of lines 85-93:
\* the file ends with the errors collected so far plus the I/O error
AbortFile(fileResult) ==
    LET errs == Append(fileResult.errors, <<"File processing error", "io">>) IN
    result' = [result EXCEPT
                 !.removedCount = @ + fileResult.removedCount,
                 !.modifiedFiles = IF fileResult.modified
                                   THEN Append(@, Head(queue)) ELSE @,
                 !.errors = @ \o errs]

\* line 126: readFile throws
ReadFails ==
    /\ pc = "loop" /\ queue # <<>> /\ ~cancelled
    /\ Confirmed(Head(queue))
    /\ ioLog' = Append(ioLog, [op |-> "read", filePath |-> Head(queue),
                               content |-> <<>>, ok |-> FALSE, pending |-> 0])
    /\ AbortFile(NoFile.fileResult)
    /\ queue' = Tail(queue)
    /\ UNCHANGED <<disk, backups, issues, options, pc, cur, cancelled,
                   applyLog, scanned,
                   lastIndex, calls,
                   lastAnalysisResults, finder, cmd>>

\* the negation of dryRun lost
ShouldBackup_DryOnly(opts) == opts.createBackup /\ opts.dryRun

\* line 129
ShouldBackup(opts) == opts.createBackup /\ ~opts.dryRun

\* lines 126-131: the file is read, createBackup throws
BackupFails ==
    /\ pc = "loop" /\ queue # <<>> /\ ~cancelled
    /\ Confirmed(Head(queue))
    /\ ShouldBackup(options)
    /\ LET f == Head(queue) IN
       ioLog' = ioLog \o
           <<[op |-> "read", filePath |-> f, content |-> disk[f], ok |-> TRUE,
              pending |-> 0],
             [op |-> "backup", filePath |-> f, content |-> disk[f], ok |-> FALSE,
              pending |-> 0]>>
    /\ AbortFile(NoFile.fileResult)
    /\ queue' = Tail(queue)
    /\ UNCHANGED <<disk, backups, issues, options, pc, cur, cancelled,
                   applyLog, scanned,
                   lastIndex, calls,
                   lastAnalysisResults, finder, cmd>>

\* the token not looked at before the file
BeginFile_IgnoreToken ==
    /\ pc = "loop" /\ queue # <<>>
    /\ Confirmed(Head(queue))
    /\ LET f == Head(queue)
           originalContent == disk[f]
           fileIssues == IssuesOf(filteredIssues(issues, options), f)
           rd == [op |-> "read", filePath |-> f, content |-> originalContent,
                  ok |-> TRUE, pending |-> 0]
       IN
       /\ cur' = [filePath |-> f, originalContent |-> originalContent,
                  modifiedContent |-> originalContent,
                  sortedIssues |-> SortByLineDesc(fileIssues),
                  fileResult |-> NoFile.fileResult]
       /\ IF ShouldBackup(options)
          THEN /\ backups' = Append(backups, [filePath |-> f,
                                              content |-> originalContent])
               /\ ioLog' = ioLog \o <<rd, [rd EXCEPT !.op = "backup"]>>
          ELSE /\ backups' = backups
               /\ ioLog' = Append(ioLog, rd)
    /\ pc' = "file"
    /\ UNCHANGED <<disk, issues, options, result, queue, cancelled, applyLog,
                   scanned,
                   lastIndex, calls,
                   lastAnalysisResults, finder, cmd>>

\* lines 62-84 and 119-135: the file is confirmed (when asked), read, backed
\* up (when asked) and its findings sorted
BeginFile ==
    /\ pc = "loop" /\ queue # <<>> /\ ~cancelled
    /\ Confirmed(Head(queue))
    /\ LET f == Head(queue)
           originalContent == disk[f]
           fileIssues == IssuesOf(filteredIssues(issues, options), f)
           rd == [op |-> "read", filePath |-> f, content |-> originalContent,
                  ok |-> TRUE, pending |-> 0]
       IN
       /\ cur' = [filePath |-> f, originalContent |-> originalContent,
                  modifiedContent |-> originalContent,
                  sortedIssues |-> SortByLineDesc(fileIssues),
                  fileResult |-> NoFile.fileResult]
       /\ IF ShouldBackup(options)
          THEN /\ backups' = Append(backups, [filePath |-> f,
                                              content |-> originalContent])
               /\ ioLog' = ioLog \o <<rd, [rd EXCEPT !.op = "backup"]>>
          ELSE /\ backups' = backups
               /\ ioLog' = Append(ioLog, rd)
    /\ pc' = "file"
    /\ UNCHANGED <<disk, issues, options, result, queue, cancelled, applyLog,
                   scanned,
                   lastIndex, calls,
                   lastAnalysisResults, finder, cmd>>

\* a failed finding ends the file's loop
AfterRemoval_StopOnFailure(c, issue, removalResult) ==
    IF removalResult.success
    THEN [c EXCEPT !.sortedIssues = Tail(@),
                   !.modifiedContent = removalResult.content,
                   !.fileResult = [@ EXCEPT !.removedCount = @ + 1,
                                            !.modified = TRUE]]
    ELSE [c EXCEPT !.sortedIssues = <<>>,
                   !.fileResult = [@ EXCEPT !.errors =
                       Append(@, <<issue.name, removalResult.reason>>)]]

\* a failed finding counted as a removal
AfterRemoval_CountFailures(c, issue, removalResult) ==
    [c EXCEPT
       !.sortedIssues = Tail(@),
       !.modifiedContent = IF removalResult.success
                           THEN removalResult.content ELSE @,
       !.fileResult =
           IF removalResult.success
           THEN [@ EXCEPT !.removedCount = @ + 1, !.modified = TRUE]
           ELSE [@ EXCEPT !.removedCount = @ + 1,
                          !.errors =
                              Append(@, <<issue.name, removalResult.reason>>)]]

\* lines 141-150: processFile's locals after one finding's removalResult
AfterRemoval(c, issue, removalResult) ==
    [c EXCEPT
       !.sortedIssues = Tail(@),
       !.modifiedContent = IF removalResult.success
                           THEN removalResult.content ELSE @,
       !.fileResult =
           IF removalResult.success
           THEN [@ EXCEPT !.removedCount = @ + 1, !.modified = TRUE]
           ELSE [@ EXCEPT !.errors =
                    Append(@, <<issue.name, removalResult.reason>>)]]

\* lines 137-156: one iteration of the loop over sortedIssues
RemoveIssue ==
    /\ pc = "file" /\ cur.sortedIssues # <<>>
    /\ LET issue == Head(cur.sortedIssues)
           removalResult == removeIssue(cur.modifiedContent, issue)
       IN
       /\ cur' = AfterRemoval(cur, issue, removalResult)
       /\ applyLog' = Append(applyLog,
              [issue |-> issue,
               found |-> LineAt(cur.modifiedContent, issue.line),
               original |-> LineAt(cur.originalContent, issue.line),
               success |-> removalResult.success,
               before |-> cur.modifiedContent,
               after |-> AfterRemoval(cur, issue, removalResult).modifiedContent])
    /\ UNCHANGED <<disk, backups, issues, options, pc, result, queue, cancelled,
                   ioLog, scanned,
                   lastIndex, calls,
                   prompts, lastAnalysisResults, finder, cmd>>

\* the dryRun test lost
ShouldWrite_AlsoDry(fileResult, opts) == fileResult.modified

\* the modified test lost
ShouldWrite_Unmodified(fileResult, opts) == ~opts.dryRun

\* line 158
ShouldWrite(fileResult, opts) == fileResult.modified /\ ~opts.dryRun

\* lines 85-93: the file's result is added to the run's result
Merge(fileResult) ==
    result' = [result EXCEPT
                 !.removedCount = @ + fileResult.removedCount,
                 !.modifiedFiles = IF fileResult.modified
                                   THEN Append(@, cur.filePath) ELSE @,
                 !.errors = @ \o fileResult.errors]

\* lines 158-169 and 85-93: the loop is over, the file is written when it
\* was modified and the run is not dry
FinishFile ==
    /\ pc = "file" /\ cur.sortedIssues = <<>>
    /\ IF ShouldWrite(cur.fileResult, options)
       THEN /\ disk' = [disk EXCEPT ![cur.filePath] = cur.modifiedContent]
            /\ ioLog' = Append(ioLog,
                   [op |-> "write", filePath |-> cur.filePath,
                    content |-> cur.modifiedContent, ok |-> TRUE,
                    pending |-> Len(cur.sortedIssues)])
       ELSE UNCHANGED <<disk, ioLog>>
    /\ Merge(cur.fileResult)
    /\ cur' = NoFile
    /\ queue' = Tail(queue)
    /\ pc' = "loop"
    /\ UNCHANGED <<backups, issues, options, cancelled, applyLog, scanned,
                   lastIndex, calls,
                   prompts, lastAnalysisResults, finder, cmd>>

\* line 159 throws: nothing is written, the catch of line 165 records it
WriteFails ==
    /\ pc = "file" /\ cur.sortedIssues = <<>>
    /\ ShouldWrite(cur.fileResult, options)
    /\ ioLog' = Append(ioLog,
           [op |-> "write", filePath |-> cur.filePath,
            content |-> cur.modifiedContent, ok |-> FALSE,
            pending |-> Len(cur.sortedIssues)])
    /\ Merge([cur.fileResult EXCEPT !.errors =
                 Append(@, <<"File processing error", "io">>)])
    /\ cur' = NoFile
    /\ queue' = Tail(queue)
    /\ pc' = "loop"
    /\ UNCHANGED <<disk, backups, issues, options, cancelled, applyLog, scanned,
                   lastIndex, calls,
                   prompts, lastAnalysisResults, finder, cmd>>

\* lines 100-111: the loop is over, the summary is shown, the result returned
Finish ==
    /\ pc = "loop" /\ queue = <<>>
    /\ pc' = "done"
    /\ UNCHANGED <<disk, backups, issues, options, result, queue, cur,
                   cancelled, ioLog, applyLog, scanned,
                   lastIndex, calls,
                   prompts, lastAnalysisResults, finder, cmd>>

\* lines 34-37, 51-54, 103 and 105-109: a call of the outer try block throws
\* (the output channel, withProgress, the progress report at the head of the
\* loop, the summary); the catch ends the run
Fatal ==
    /\ pc \in {"idle", "loop"}
    /\ result' = [(IF pc = "idle" THEN FreshResult ELSE result) EXCEPT
                     !.success = FALSE,
                     !.errors = Append(@, <<"General error", "fatal">>)]
    /\ pc' = "done"
    /\ UNCHANGED <<disk, backups, issues, options, queue, cur, cancelled,
                   ioLog, applyLog, scanned, lastIndex, calls,
                   prompts, lastAnalysisResults, finder, cmd>>

----------------------------------------------------------------------------
(* Inputs of the remover runs *)

MaxIssues == 2

ImportAB == <<"import", SP, "{", SP, "a", ",", SP, "b", SP, "}", SP, "from", SP, "'m'", ";">>
ImportC  == <<"import", SP, "c", SP, "from", SP, "'m'", ";">>
FuncF    == <<"function", SP, "f", "(", ")", SP, "{">>
FuncG    == <<"function", SP, "g", "(", ")", SP, "{">>
ConstY   == <<"const", SP, "y", SP, "=", SP, "1", ";">>
ConstX   == <<"const", SP, "x", SP, "=", SP, "1", ";">>
Indent(l) == <<SP, SP>> \o l
Close    == <<"}">>

InitialDisk ==
    [f \in Files |->
        IF f = "a.ts" THEN Join(<<ImportAB, ImportC, FuncF, Indent(ConstY), Close>>)
        ELSE Join(<<ConstX, FuncG>>)]

Issue(t, f, l, n, c) ==
    [type |-> t, filePath |-> f, line |-> l, name |-> <<n>>, confidence |-> c,
     category |-> "dead-code"]

\* findings as the scanner shapes them for InitialDisk, and stale ones: a
\* second name on one import line, an unsupported kind, a name that is not
\* on its line, a block that never closes, a line past the end of the file
IssuePool ==
    { Issue("unused-import", "a.ts", 1, "a", "high"),
      Issue("unused-import", "a.ts", 1, "b", "high"),
      Issue("unused-function", "a.ts", 3, "f", "medium"),
      Issue("unused-variable", "a.ts", 4, "y", "medium"),
      Issue("unused-route", "a.ts", 2, "r", "high"),
      Issue("unused-variable", "b.tsx", 1, "y", "low"),
      Issue("unused-variable", "b.tsx", 1, "x", "medium"),
      Issue("unused-component", "b.tsx", 2, "g", "medium"),
      Issue("unused-import", "b.tsx", 3, "c", "high") }

IssueLists == UNION { [1..n -> IssuePool] : n \in 0..MaxIssues }

AllOptions == [createBackup : BOOLEAN, confirmEach : BOOLEAN,
               onlyHighConfidence : BOOLEAN, dryRun : BOOLEAN]

Init ==
    /\ disk = InitialDisk
    /\ backups = <<>>
    /\ issues \in IssueLists
    /\ options \in AllOptions
    /\ pc = "idle"
    /\ result = FreshResult
    /\ queue = <<>>
    /\ cur = NoFile
    /\ cancelled = FALSE
    /\ ioLog = <<>>
    /\ applyLog = <<>>
    /\ scanned = <<>>
    /\ lastIndex = [rx \in Regexes |-> 0]
    /\ calls = 0
    /\ prompts = <<>>
    /\ ExtensionIdle

Next ==
    \/ Start
    \/ Cancel
    \/ CancelBreak
    \/ SkipFile
    \/ ReadFails
    \/ BackupFails
    \/ BeginFile
    \/ RemoveIssue
    \/ FinishFile
    \/ WriteFails
    \/ Finish

Spec == Init /\ [][Next]_vars

\* the runs of Spec, and those ended by an exception of the outer try block
NextDriver == Next \/ Fatal

SpecDriver == Init /\ [][NextDriver]_vars

----------------------------------------------------------------------------
(* Properties of the remover *)

Filtered == filteredIssues(issues, options)

IoOf(f, op) == { i \in DOMAIN ioLog : ioLog[i].filePath = f /\ ioLog[i].op = op }

Written(f) == { i \in IoOf(f, "write") : ioLog[i].ok }

AppliedTo(f) == { k \in DOMAIN applyLog : applyLog[k].issue.filePath = f }

RemovedFrom(f) == { k \in AppliedTo(f) : applyLog[k].success }

\* C1 (dry-run purity): in a run with dryRun = true, whatever the findings
\* and the other options, no file is written and no backup is created: the
\* disk holds every file's initial content and the only file system calls
\* are reads, also when the result counts removals.
C1_DryRunPurity ==
    options.dryRun =>
        /\ disk = InitialDisk
        /\ backups = <<>>
        /\ \A i \in DOMAIN ioLog : ioLog[i].op = "read"

C1_Witness ==
    /\ options.dryRun /\ options.createBackup
    /\ pc = "done" /\ result.removedCount > 0

\* C2 (backup before overwrite): in a non-dry run with createBackup = true,
\* every overwrite of a file comes after a successful backup write of that
\* file holding the content read at the start of its processing, and after a
\* failed backup write the file is not overwritten.
C2_BackupBeforeOverwrite ==
    (options.createBackup /\ ~options.dryRun) =>
        \A f \in Files :
            /\ \A w \in Written(f) :
                  \E b \in IoOf(f, "backup"), r \in IoOf(f, "read") :
                      /\ r < b /\ b < w
                      /\ ioLog[b].ok /\ ioLog[r].ok
                      /\ ioLog[b].content = ioLog[r].content
                      /\ ioLog[r].content = InitialDisk[f]
                      /\ \E k \in DOMAIN backups :
                            backups[k] = [filePath |-> f,
                                          content |-> InitialDisk[f]]
            /\ (\E b \in IoOf(f, "backup") : ~ioLog[b].ok) =>
                  /\ IoOf(f, "write") = {}
                  /\ disk[f] = InitialDisk[f]

C2_Witness ==
    /\ options.createBackup /\ ~options.dryRun
    /\ pc = "done"
    /\ Written("a.ts") # {}
    /\ \E b \in IoOf("b.tsx", "backup") : ~ioLog[b].ok

\* C3 (no partial write): a file is written at most once in a run, only when
\* every finding of the file has been evaluated, with the content that
\* results from all its successful removals, and only if at least one
\* removal succeeded; a file with no successful removal keeps its content.
C3_NoPartialWrite ==
    \A f \in Files :
        /\ Cardinality(IoOf(f, "write")) <= 1
        /\ \A w \in IoOf(f, "write") :
              /\ ioLog[w].pending = 0
              /\ Cardinality(AppliedTo(f)) = Len(IssuesOf(Filtered, f))
              /\ RemovedFrom(f) # {}
              /\ LET last == CHOOSE k \in AppliedTo(f) :
                                 \A j \in AppliedTo(f) : j <= k
                 IN  ioLog[w].content = applyLog[last].after
              /\ ioLog[w].ok => disk[f] = ioLog[w].content
        /\ Written(f) = {} => disk[f] = InitialDisk[f]

C3_Witness ==
    /\ pc = "done"
    /\ Written("a.ts") # {}
    /\ Cardinality(RemovedFrom("a.ts")) = 1
    /\ Cardinality(AppliedTo("a.ts")) = 2

\* C4 (high-confidence filter): with onlyHighConfidence = true only findings
\* of confidence high are applied, every recorded per-finding error names a
\* high-confidence finding, and when no finding is high the call returns at
\* once: success, no removal, no error, no modified file, no file system call.
C4_HighConfidenceFilter ==
    options.onlyHighConfidence =>
        /\ \A k \in DOMAIN applyLog : applyLog[k].issue.confidence = "high"
        /\ \A e \in DOMAIN result.errors :
              \/ result.errors[e][1] = "File processing error"
              \/ \E i \in DOMAIN issues :
                    /\ issues[i].confidence = "high"
                    /\ issues[i].name = result.errors[e][1]
        /\ (pc # "idle" /\ \A i \in DOMAIN issues : issues[i].confidence # "high") =>
              /\ pc = "done"
              /\ result = FreshResult
              /\ ioLog = <<>> /\ applyLog = <<>>
              /\ disk = InitialDisk /\ backups = <<>>

C4_Witness ==
    /\ options.onlyHighConfidence /\ ~options.dryRun
    /\ pc = "done"
    /\ Len(issues) = 2
    /\ issues[1].confidence = "medium" /\ issues[2].confidence = "high"
    /\ issues[1].filePath = issues[2].filePath
    /\ result.removedCount = 1

C4_WitnessNoneHigh ==
    /\ options.onlyHighConfidence
    /\ pc = "done"
    /\ issues # <<>>
    /\ \A i \in DOMAIN issues : issues[i].confidence # "high"

\* C5 (removal ordering invariant), as claimed: the findings of a file are
\* applied in descending order of line, and each finding finds at its line
\* the text that line had in the original file.
C5_TargetLineIsOriginal ==
    \A k \in DOMAIN applyLog :
        /\ applyLog[k].found = applyLog[k].original
        /\ \A j \in 1..(k - 1) :
              applyLog[j].issue.filePath = applyLog[k].issue.filePath =>
                  applyLog[j].issue.line >= applyLog[k].issue.line

\* C6 (partial-failure semantics): a finding whose removal fails leaves the
\* working content and the removal count unchanged, adds exactly one error,
\* leaves the rest of the file's findings to be processed and does not touch
\* the run's result; a run that is neither cancelled, declined nor hit by a
\* file system error evaluates every filtered finding, ends with success =
\* true and reports one error per failed finding.
C6_FailureStep ==
    (applyLog' # applyLog /\ ~applyLog'[Len(applyLog')].success) =>
        /\ cur'.modifiedContent = cur.modifiedContent
        /\ cur'.fileResult.removedCount = cur.fileResult.removedCount
        /\ cur'.fileResult.modified = cur.fileResult.modified
        /\ Len(cur'.fileResult.errors) = Len(cur.fileResult.errors) + 1
        /\ cur'.sortedIssues = Tail(cur.sortedIssues)
        /\ pc' = "file"
        /\ result' = result /\ disk' = disk /\ queue' = queue

C6_RunCompletes ==
    (/\ pc = "done" /\ ~options.confirmEach /\ result.success
     /\ \A i \in DOMAIN ioLog : ioLog[i].ok) =>
        /\ Len(applyLog) = Len(Filtered)
        /\ Len(result.errors) =
              Cardinality({ k \in DOMAIN applyLog : ~applyLog[k].success })
        /\ result.removedCount =
              Cardinality({ k \in DOMAIN applyLog : applyLog[k].success })

C6_PartialFailure == [][C6_FailureStep]_vars /\ [](C6_RunCompletes) /\ [](~cancelled => result.success)

C6_Witness ==
    /\ pc = "done" /\ result.success
    /\ Len(applyLog) = 2
    /\ ~applyLog[1].success /\ applyLog[2].success
    /\ applyLog[1].issue.filePath = applyLog[2].issue.filePath
    /\ Len(result.errors) = 1 /\ result.removedCount = 1

----------------------------------------------------------------------------
(* Scanning a file and removing one of its findings *)

MaxLines == 3

ImportNS  == <<"import", SP, "*", SP, "as", SP, "n", SP, "from", SP, "'m'", ";">>
FuncFoo   == <<"function", SP, "Foo", "(", ")", SP, "{">>
ConstYA   == <<"const", SP, "y", SP, "=", SP, "a", ";">>
ConstXY   == <<"const", SP, "x", SP, "=", SP, "y", ";">>
CallFoo   == <<"Foo", "(", "n", ")", ";">>
ExportFoo == <<"export", SP, "{", SP, "Foo", SP, "}", ";">>
ExportC   == <<"export", SP, "default", SP, "c", ";">>
Blank     == <<>>

ScanLines == {ImportAB, ImportC, ImportNS, FuncFoo, Close, ConstYA,
              Indent(ConstYA), ConstXY, CallFoo, ExportFoo, ExportC, Blank}

ScanContents == { Join(ls) : ls \in UNION { [1..n -> ScanLines] : n \in 1..MaxLines } }

InitScan ==
    /\ \E f \in Files, c \in ScanContents :
          disk = [g \in Files |-> IF g = f THEN c ELSE <<>>]
    /\ backups = <<>>
    /\ issues = <<>>
    /\ options = [createBackup |-> FALSE, confirmEach |-> FALSE,
                  onlyHighConfidence |-> FALSE, dryRun |-> FALSE]
    /\ pc = "scan"
    /\ result = FreshResult
    /\ queue = <<>>
    /\ cur = NoFile
    /\ cancelled = FALSE
    /\ ioLog = <<>>
    /\ applyLog = <<>>
    /\ scanned = <<>>
    /\ lastIndex = [rx \in Regexes |-> 0]
    /\ calls = 0
    /\ prompts = <<>>
    /\ ExtensionIdle

\* analyzeFile on a file of the workspace
Scan ==
    /\ pc = "scan"
    /\ \E f \in Files :
          /\ disk[f] # <<>>
          /\ scanned' = [filePath |-> f, content |-> disk[f],
                         issues |-> analyzeFile(f, disk[f], lastIndex)]
          /\ lastIndex' = lastIndexAfter(f, disk[f], lastIndex)
    /\ calls' = calls + 1
    /\ pc' = "scanned"
    /\ UNCHANGED <<disk, backups, issues, options, result, queue, cur,
                   cancelled, ioLog, applyLog,
                   prompts, lastAnalysisResults, finder, cmd>>

\* removeDeadCode is called with exactly one finding of the scan
RemoveOne ==
    /\ pc = "scanned"
    /\ \E i \in DOMAIN scanned.issues : issues' = <<scanned.issues[i]>>
    /\ pc' = "idle"
    /\ UNCHANGED <<disk, backups, options, result, queue, cur, cancelled,
                   ioLog, applyLog, scanned,
                   lastIndex, calls,
                   prompts, lastAnalysisResults, finder, cmd>>

NextScan ==
    \/ Scan
    \/ RemoveOne
    \/ Start
    \/ BeginFile
    \/ RemoveIssue
    \/ FinishFile
    \/ Finish

SpecScan == InitScan /\ [][NextScan]_vars

----------------------------------------------------------------------------
(* Properties of the scanner, and of a scan followed by a removal *)

\* the 1-based lines of content on which a declaration keyword is followed
\* by the name
DeclLines(content, keywords, name) ==
    LET ls == Split(content) IN
    { l \in 1..Len(ls) :
        \E i \in 1..Len(ls[l]) :
            /\ ls[l][i] \in keywords
            /\ <<Tok(ls[l], SkipWS(ls[l], i + 1))>> = name }

\* the 1-based lines of content on which an import statement names the name
ImportLines(content, name) ==
    LET ls == Split(content) IN
    { l \in 1..Len(ls) :
        \E i, j \in 1..Len(ls[l]) :
            ls[l][i] = "import" /\ i < j /\ <<ls[l][j]>> = name }

\* the lines on which the declaration a finding reports can stand
LinesOfFinding(content, issue) ==
    CASE issue.type = "unused-import"    -> ImportLines(content, issue.name)
      [] issue.type = "unused-function"  ->
             DeclLines(content, {"function"} \cup VarKeywords, issue.name)
      [] issue.type = "unused-variable"  -> DeclLines(content, VarKeywords, issue.name)
      [] issue.type = "unused-component" ->
             DeclLines(content, {"function", "const"}, issue.name)
      [] OTHER -> {}

\* content without its 1-based lines from..to
WithoutLines(content, from, to) ==
    LET ls == Split(content) IN Join(SubSeq(ls, 1, from - 1) \o SubSeq(ls, to + 1, Len(ls)))

\* what the removal of the declaration a finding reports may leave: the
\* content without the declaration line (a variable), without the lines from
\* the declaration line to the line closing its block (a function)
ExpectedAfterRemoval(content, issue) ==
    LET ls == Split(content) IN
    IF issue.type = "unused-variable"
    THEN { WithoutLines(content, l, l) : l \in LinesOfFinding(content, issue) }
    ELSE { WithoutLines(content, l, findFunctionEnd(ls, l - 1) + 1) :
             l \in { d \in LinesOfFinding(content, issue) :
                       findFunctionEnd(ls, d - 1) # -1 } }

\* C7 (scan-then-remove composition), as claimed: when the remover is given
\* exactly one unused-function or unused-variable finding of a scan, the file
\* is left without the lines of that declaration and with every other line.
C7_ScanThenRemove ==
    (/\ pc = "done" /\ scanned # <<>> /\ Len(issues) = 1
     /\ issues[1].type \in {"unused-function", "unused-variable"}
     /\ ExpectedAfterRemoval(scanned.content, issues[1]) # {}) =>
        disk[scanned.filePath] \in ExpectedAfterRemoval(scanned.content, issues[1])

\* C8 (finding position), as claimed: the line of every finding is at least 1
\* and is a line on which the reported declaration stands.
C8_FindingPosition ==
    scanned # <<>> =>
        \A i \in DOMAIN scanned.issues :
            /\ scanned.issues[i].line >= 1
            /\ scanned.issues[i].line \in
                  LinesOfFinding(scanned.content, scanned.issues[i])

\* the names importRegex captures in content
CapturedImports(content) ==
    LET ms == ExecAll("import", content, 1) IN
    UNION { { ImportNames(ms[i].named)[k] : k \in DOMAIN ImportNames(ms[i].named) }
            \cup (IF ms[i].default # <<>> THEN {ms[i].default} ELSE {})
            \cup (IF ms[i].namespace # <<>> THEN {ms[i].namespace} ELSE {})
          : i \in DOMAIN ms }

\* the name stands as a whole word on a line that does not start with import
OutsideImportLines(content, name) ==
    LET ls == Split(content) IN
    \E l \in 1..Len(ls) :
        /\ ~IsPrefix(Spelling("import"), Chars(ls[l]))
        /\ \E i \in 1..Len(ls[l]) : SubSeq(ls[l], i, i + Len(name) - 1) = name

ImportFindingsOf(found, name) ==
    { i \in DOMAIN found : found[i].type = "unused-import" /\ found[i].name = name }

\* C9 (import reliability): for every name captured from an import statement
\* the scan reports an unused-import finding, of confidence high, if and only
\* if the name is no whole word of a line that does not start with import;
\* unused-import findings are reported for captured names only.
C9_ImportReliability ==
    (pc = "scanned") =>
        /\ \A n \in CapturedImports(scanned.content) :
              /\ (ImportFindingsOf(scanned.issues, n) # {})
                    <=> ~OutsideImportLines(scanned.content, n)
              /\ \A i \in ImportFindingsOf(scanned.issues, n) :
                    scanned.issues[i].confidence = "high"
        /\ \A i \in DOMAIN scanned.issues :
              scanned.issues[i].type = "unused-import" =>
                  scanned.issues[i].name \in CapturedImports(scanned.content)

C9_Witness ==
    /\ pc = "scanned"
    /\ ImportFindingsOf(scanned.issues, <<"b">>) # {}
    /\ <<"a">> \in CapturedImports(scanned.content)
    /\ OutsideImportLines(scanned.content, <<"a">>)
    /\ <<"n">> \in CapturedImports(scanned.content)
    /\ ImportFindingsOf(scanned.issues, <<"n">>) # {}

\* the name stands in a statement that begins with export
InExportStatement(content, name) ==
    LET ls == Split(content) IN
    \E l \in 1..Len(ls) :
        \E i, j \in 1..Len(ls[l]) :
            ls[l][i] = "export" /\ i < j /\ <<ls[l][j]>> = name

\* C10 (export suppression), as claimed: no unused-function or
\* unused-component finding names a function or component whose name stands
\* in an export statement of the file.
C10_ExportSuppression ==
    scanned # <<>> =>
        \A i \in DOMAIN scanned.issues :
            scanned.issues[i].type \in {"unused-function", "unused-component"} =>
                ~InExportStatement(scanned.content, scanned.issues[i].name)

----------------------------------------------------------------------------
(* DeadCodeAnalyzer.analyzeFile as a state machine: one analyzer instance   *)
(* is called on one path after the other                                    *)

MaxCalls == 2

\* lines 78-88: the finding pushed by the catch of analyzeFile
AnalysisError(filePath) ==
    [type |-> "unused-variable", filePath |-> filePath, line |-> 1,
     name |-> <<"Analysis", SP, "Error">>, confidence |-> "low",
     category |-> "dead-code"]

\* what analyzeFile returns, the cursors it found (entry), the cursors its
\* sub-scans started with (start: those of line 63 when it was reached, the
\* ones found otherwise) and the cursors it leaves
Returns(filePath, content, found, outcome, start, li) ==
    /\ scanned' = [filePath |-> filePath, content |-> content, issues |-> found,
                   outcome |-> outcome, start |-> start,
                   entry |-> lastIndex]
    /\ lastIndex' = li
    /\ calls' = calls + 1
    /\ UNCHANGED <<disk, backups, issues, options, pc, result, queue, cur,
                   cancelled, ioLog, applyLog,
                   prompts, lastAnalysisResults, finder, cmd>>

\* lines 43-46: no file path is given
AnalyzeInvalid ==
    /\ pc = "analyzer" /\ calls < MaxCalls
    /\ Returns("", <<>>, <<>>, "invalid", lastIndex, lastIndex)

\* lines 49-52: fs.existsSync(filePath) is false
AnalyzeMissing ==
    /\ pc = "analyzer" /\ calls < MaxCalls
    /\ \E f \in {"none.js"} \ DOMAIN disk :
          Returns(f, <<>>, <<>>, "missing", lastIndex, lastIndex)

\* line 54 throws (a directory, a file the process may not read): the catch
\* of lines 74-89 is reached before resetRegexState
AnalyzeReadFails ==
    /\ pc = "analyzer" /\ calls < MaxCalls
    /\ \E f \in DOMAIN disk :
          Returns(f, <<>>, <<AnalysisError(f)>>, "unreadable", lastIndex,
                  lastIndex)

\* lines 54-73 and 91: the file is read and its sub-scans run to their end
AnalyzeFile ==
    /\ pc = "analyzer" /\ calls < MaxCalls
    /\ \E f \in DOMAIN disk :
          Returns(f, disk[f], analyzeFile(f, disk[f], lastIndex), "returned",
                  IF Trim(disk[f]) = <<>> THEN lastIndex
                  ELSE resetRegexState(lastIndex),
                  lastIndexAfter(f, disk[f], lastIndex))

\* the loops over shared regular expressions a file goes through, in order
\* (lines 113-115 and 122-123)
LoopsOf(filePath) ==
    IF isJavaScriptFile(filePath)
    THEN <<"import", "function", "arrow", "variable">>
    ELSE IF isReactFile(filePath)
    THEN <<"component", "import", "function", "arrow", "variable">>
    ELSE <<>>

\* the cursors when the body of iteration k of loop n throws before its
\* usage check: the loops before n ran to their end, loop n stands after its
\* k-th match, the loops after n were not entered
lastIndexThrown(filePath, content, reset, n, k) ==
    LET loops == LoopsOf(filePath)
        Matches(j) == ExecAll(loops[j], content, reset[loops[j]] + 1)
        Checks(j) == loops[j] \in {"function", "arrow", "component"}
        checked == \/ \E j \in 1..(n - 1) : Checks(j) /\ Matches(j) # <<>>
                   \/ Checks(n) /\ k > 1
    IN  [rx \in DOMAIN reset |->
            IF rx = loops[n] THEN Matches(n)[k].end - 1
            ELSE IF rx = "export"
                 THEN (IF checked THEN exportLastIndex(content) ELSE reset[rx])
            ELSE IF \E j \in 1..(n - 1) : loops[j] = rx THEN 0
            ELSE reset[rx]]

\* lines 63-89: an exception in the body of a loop is caught by analyzeFile;
\* the findings of the sub-scan are dropped with it
AnalyzeThrows ==
    /\ pc = "analyzer" /\ calls < MaxCalls
    /\ \E f \in DOMAIN disk :
          /\ Trim(disk[f]) # <<>>
          /\ \E n \in DOMAIN LoopsOf(f) :
                \E k \in DOMAIN ExecAll(LoopsOf(f)[n], disk[f],
                                        resetRegexState(lastIndex)[LoopsOf(f)[n]] + 1) :
                   Returns(f, disk[f], <<AnalysisError(f)>>, "threw",
                           resetRegexState(lastIndex),
                           lastIndexThrown(f, disk[f], resetRegexState(lastIndex),
                                           n, k))

NextAnalyzer ==
    \/ AnalyzeInvalid
    \/ AnalyzeMissing
    \/ AnalyzeReadFails
    \/ AnalyzeFile
    \/ AnalyzeThrows

----------------------------------------------------------------------------
(* Inputs of the analyzer runs: one call on one file *)

MaxAnalyzerLines == 2

ExportConstX == <<"export", SP, "const", SP, "x", SP, "=", SP, "y", ";">>
ArrowG       == <<"const", SP, "g", SP, "=", SP, "(", ")", SP, "=>", SP, "a", ";">>
CssClassX    == <<".", "x", SP, "{">>
CssIdY       == <<"#", "y", SP, "{">>

AnalyzerLines == {ImportAB, FuncFoo, Close, CallFoo, ExportC, ExportConstX,
                  ArrowG, ConstXY, CssClassX, CssIdY, Blank}

AnalyzerContents ==
    { Join(ls) : ls \in UNION { [1..n -> AnalyzerLines] : n \in 1..MaxAnalyzerLines } }

\* the paths analyzeFile is called with
AnalyzerPaths == {"a.ts", "b.tsx", "c.JS", "d.mjs", "e.Jsx", "f.css", "g.Scss",
                  "h.sass", "i.less", "j.txt"}

\* the state variables of the remover, which takes no part
RemoverIdle ==
    /\ backups = <<>>
    /\ issues = <<>>
    /\ options = [createBackup |-> FALSE, confirmEach |-> FALSE,
                  onlyHighConfidence |-> FALSE, dryRun |-> FALSE]
    /\ result = FreshResult
    /\ queue = <<>>
    /\ cur = NoFile
    /\ cancelled = FALSE
    /\ ioLog = <<>>
    /\ applyLog = <<>>

\* an analyzer that has one call left and whose cursors are all 0
InitAnalyzer ==
    /\ \E f \in AnalyzerPaths, c \in AnalyzerContents : disk = (f :> c)
    /\ RemoverIdle
    /\ pc = "analyzer"
    /\ scanned = <<>>
    /\ lastIndex = [rx \in Regexes |-> 0]
    /\ calls = MaxCalls - 1
    /\ prompts = <<>>
    /\ ExtensionIdle

SpecAnalyzer == InitAnalyzer /\ [][NextAnalyzer]_vars

----------------------------------------------------------------------------
(* Properties of one analyzeFile call *)

\* the last call read its file and ran its sub-scans to their end
Returned == scanned # <<>> /\ scanned.outcome = "returned"

\* the paths whose extension, whatever its case, names a script
ScriptPaths == {"a.ts", "c.JS", "d.mjs"}

\* the paths whose extension, whatever its case, names a script with markup
MarkupPaths == {"b.tsx", "e.Jsx"}

FindingsOf(type, name) ==
    { i \in DOMAIN scanned.issues :
        scanned.issues[i].type = type /\ scanned.issues[i].name = name }

\* the names content declares with the function keyword
FunctionNames(content) ==
    { <<content[i]>> : i \in { j \in 3..Len(content) :
        content[j - 2] = "function" /\ IsWS(content[j - 1])
        /\ IsIdentStart(content[j]) } }

\* the name is followed by "(" somewhere else than after the function keyword
Called(content, name) ==
    \E i \in 1..Len(content) :
        /\ <<content[i]>> = name
        /\ Tok(content, SkipWS(content, i + 1)) = "("
        /\ ~(Tok(content, i - 2) = "function" /\ IsWS(Tok(content, i - 1)))

\* C11 (export check is per name), as claimed: a function that is called
\* nowhere and whose name stands in no export statement is reported as
\* unused-function, whatever other symbols the file exports.
C11_ExportCheckPerName ==
    (Returned /\ scanned.filePath \in ScriptPaths \cup MarkupPaths) =>
        \A n \in FunctionNames(scanned.content) :
            (~Called(scanned.content, n) /\ ~InExportStatement(scanned.content, n))
                => FindingsOf("unused-function", n) # {}

\* C12 (export check applies to variables), as claimed: no unused-variable
\* finding names a variable whose name stands in an export statement.
C12_ExportedVariable ==
    Returned =>
        \A i \in DOMAIN scanned.issues :
            scanned.issues[i].type = "unused-variable" =>
                ~InExportStatement(scanned.content, scanned.issues[i].name)

\* C13 (no double reporting), as claimed: no declaration is reported both as
\* unused-function and as unused-variable.
C13_NoDoubleReporting ==
    Returned =>
        \A i, j \in DOMAIN scanned.issues :
            ~(/\ scanned.issues[i].type = "unused-function"
              /\ scanned.issues[j].type = "unused-variable"
              /\ scanned.issues[i].name = scanned.issues[j].name
              /\ scanned.issues[i].line = scanned.issues[j].line)

\* C14 (confidence labelling): every finding of every call has a non-empty
\* name and the category dead-code; apart from the finding named 'Analysis
\* Error', an unused-import finding has confidence high and an
\* unused-function, unused-variable or unused-component finding has
\* confidence medium; confidence low stands on 'Analysis Error' alone.
C14_ConfidenceLabelling ==
    scanned # <<>> =>
        \A i \in DOMAIN scanned.issues :
            LET fi == scanned.issues[i] IN
            /\ fi.name # <<>>
            /\ fi.category = "dead-code"
            /\ fi.confidence = "low" <=> fi.name = <<"Analysis", SP, "Error">>
            /\ fi.confidence # "low" =>
                  /\ fi.type \in {"unused-import", "unused-function",
                                  "unused-variable", "unused-component"}
                  /\ fi.confidence = "high" <=> fi.type = "unused-import"
                  /\ fi.confidence = "medium" <=> fi.type # "unused-import"

C14_Witness ==
    /\ Returned
    /\ \E i, j \in DOMAIN scanned.issues :
          /\ scanned.issues[i].type = "unused-import"
          /\ scanned.issues[i].confidence = "high"
          /\ scanned.issues[j].type = "unused-variable"
          /\ scanned.issues[j].confidence = "medium"

Range(s) == { s[i] : i \in DOMAIN s }

\* the findings of the named sub-scans of a content, each run from the start
\* of the content
SubScans(kinds, content, filePath) ==
    LET zero == [rx \in Regexes |-> 0] IN
    (IF "import" \in kinds THEN Range(findUnusedImports(content, filePath, zero)) ELSE {})
    \cup (IF "function" \in kinds
          THEN Range(findUnusedFunctions(content, filePath, zero)) ELSE {})
    \cup (IF "variable" \in kinds
          THEN Range(findUnusedVariables(content, filePath, zero)) ELSE {})
    \cup (IF "component" \in kinds
          THEN Range(findUnusedComponents(content, filePath, zero)) ELSE {})

\* C15 (file-type dispatch): a call that read a file that is not blank
\* returns the findings of the import, function and variable scans for a
\* script extension, those and the findings of the component scan for a
\* markup extension, in whatever case the extension is written, and no
\* finding for a style sheet or any other extension.
C15_FileTypeDispatch ==
    (Returned /\ Trim(scanned.content) # <<>>) =>
        Range(scanned.issues) =
            IF scanned.filePath \in ScriptPaths
            THEN SubScans({"import", "function", "variable"},
                          scanned.content, scanned.filePath)
            ELSE IF scanned.filePath \in MarkupPaths
            THEN SubScans({"import", "function", "variable", "component"},
                          scanned.content, scanned.filePath)
            ELSE {}

C15_Witness ==
    /\ Returned
    /\ scanned.filePath = "e.Jsx"
    /\ \E i, j \in DOMAIN scanned.issues :
          /\ scanned.issues[i].type = "unused-component"
          /\ scanned.issues[j].type = "unused-import"

\* C16 (scan failure semantics), as claimed: a call on a path that does not
\* exist, on a file that cannot be read or whose matching throws returns
\* exactly one finding: unused-variable 'Analysis Error', confidence low,
\* line 1.
C16_ScanFailure ==
    (scanned # <<>> /\ scanned.outcome \in {"missing", "unreadable", "threw"}) =>
        /\ Len(scanned.issues) = 1
        /\ scanned.issues[1].type = "unused-variable"
        /\ scanned.issues[1].name = <<"Analysis", SP, "Error">>
        /\ scanned.issues[1].confidence = "low"
        /\ scanned.issues[1].line = 1

----------------------------------------------------------------------------
(* Properties of the backups of a run *)

\* C17 (backup only for modified files), as claimed: when a run has ended, a
\* file has a backup only if a finding was successfully removed from it; a
\* file with no successful removal has none.
C17_BackupOnlyModified ==
    pc = "done" =>
        \A k \in DOMAIN backups : RemovedFrom(backups[k].filePath) # {}

----------------------------------------------------------------------------
(* One finding applied to one file: removeDeadCode with a single finding *)

MaxRemovalLines == 3

ImportedLine == <<"imported", SP, "=", SP, "1", ";">>
LetYComma    == <<"let", SP, "y", SP, "=", SP, "1", ",">>
VarYOpen     == <<"var", SP, "y", SP, "=", SP, "1">>
ConstYYPad   == <<"const", SP, "yy", SP, "=", SP, "1", ";", SP>>
CloseOpen    == <<"}", SP, "{">>
BraceInText  == <<"f", "(", "'{'", ")", ";">>
FuncFInline  == <<"function", SP, "f", "(", ")", SP, "{", SP, "}">>

RemovalLines ==
    {Indent(ImportC), ImportedLine, LetYComma, VarYOpen, ConstYYPad,
     FuncF, Close, CloseOpen, BraceInText, FuncFInline}

RemovalContents ==
    { Join(ls) : ls \in UNION { [1..n -> RemovalLines] : n \in 1..MaxRemovalLines } }

RemovalIssues ==
    { Issue(t, "a.ts", l, "y", "medium") :
        t \in {"unused-import", "unused-variable", "unused-function",
               "unused-component"},
        l \in 1..MaxRemovalLines }

InitRemoval ==
    /\ \E c \in RemovalContents :
          disk = [g \in Files |-> IF g = "a.ts" THEN c ELSE <<>>]
    /\ \E i \in RemovalIssues : issues = <<i>>
    /\ backups = <<>>
    /\ options = [createBackup |-> FALSE, confirmEach |-> FALSE,
                  onlyHighConfidence |-> FALSE, dryRun |-> FALSE]
    /\ pc = "idle"
    /\ result = FreshResult
    /\ queue = <<>>
    /\ cur = NoFile
    /\ cancelled = FALSE
    /\ ioLog = <<>>
    /\ applyLog = <<>>
    /\ scanned = <<>>
    /\ lastIndex = [rx \in Regexes |-> 0]
    /\ calls = 0
    /\ prompts = <<>>
    /\ ExtensionIdle

NextRemoval ==
    \/ Start
    \/ BeginFile
    \/ RemoveIssue
    \/ FinishFile
    \/ Finish

SpecRemoval == InitRemoval /\ [][NextRemoval]_vars

----------------------------------------------------------------------------
(* Properties of the removal of one finding's lines *)

\* the run has ended after evaluating its one finding, whose target line
\* exists and whose type is one of types
Removed(types) ==
    /\ pc = "done" /\ Len(applyLog) = 1
    /\ applyLog[1].issue.type \in types
    /\ applyLog[1].issue.line \in 1..Len(Split(applyLog[1].before))

\* the characters of the finding's target line
TargetText == Chars(Split(applyLog[1].before)[applyLog[1].issue.line])

Blanks(c, from, to) == \A j \in from..to : IsWS(c[j])

\* the text after its leading white space starts with the word import
StartsWithImport(c) ==
    \E k \in 1..Len(c) :
        /\ Blanks(c, 1, k - 1)
        /\ k + 5 <= Len(c)
        /\ <<c[k], c[k + 1], c[k + 2], c[k + 3], c[k + 4], c[k + 5]>>
               = <<"i", "m", "p", "o", "r", "t">>

\* the text before its trailing white space ends with ; or ,
EndsStatement(c) ==
    \E k \in 1..Len(c) : c[k] \in {";", ","} /\ Blanks(c, k + 1, Len(c))

\* the text contains `const NAME`, `let NAME` or `var NAME`
NamesDeclaration(c, name) ==
    \E kw \in {<<"c", "o", "n", "s", "t">>, <<"l", "e", "t">>, <<"v", "a", "r">>} :
        Includes(c, kw \o <<" ">> \o Chars(name))

\* the finding succeeded: the file holds the content without lines from..to
\* and no error is recorded
Deleted(from, to) ==
    /\ applyLog[1].success
    /\ applyLog[1].after = WithoutLines(applyLog[1].before, from, to)
    /\ disk["a.ts"] = applyLog[1].after
    /\ result.removedCount = 1 /\ result.errors = <<>>

\* the finding failed with the reason why: the content is unchanged
Refused(why) ==
    /\ ~applyLog[1].success
    /\ applyLog[1].after = applyLog[1].before
    /\ disk["a.ts"] = applyLog[1].before
    /\ result.removedCount = 0
    /\ result.errors = << <<applyLog[1].issue.name, why>> >>

\* C18 (guarded single-line removal): an unused-import finding whose target
\* line exists deletes exactly that line when its trimmed text starts with
\* import and otherwise fails with 'Line is not an import statement'; an
\* unused-variable finding deletes exactly its target line when the line
\* contains `const NAME`, `let NAME` or `var NAME` and its trimmed text ends
\* with ; or , and otherwise fails with 'Could not safely remove variable';
\* a failed guard leaves the content unchanged.
C18_GuardedLineRemoval ==
    /\ Removed({"unused-import"}) =>
          IF StartsWithImport(TargetText)
          THEN Deleted(applyLog[1].issue.line, applyLog[1].issue.line)
          ELSE Refused("Line is not an import statement")
    /\ Removed({"unused-variable"}) =>
          IF NamesDeclaration(TargetText, applyLog[1].issue.name)
             /\ EndsStatement(TargetText)
          THEN Deleted(applyLog[1].issue.line, applyLog[1].issue.line)
          ELSE Refused("Could not safely remove variable")

C18_Witness ==
    /\ Removed({"unused-variable"})
    /\ applyLog[1].issue.line = 2
    /\ Split(applyLog[1].before) = <<Indent(ImportC), LetYComma, VarYOpen>>
    /\ disk["a.ts"] = Join(<<Indent(ImportC), VarYOpen>>)

\* the characters of a content from its 1-based line n on
TextFrom(content, n) ==
    LET ls == Split(content) IN Chars(Join(SubSeq(ls, n, Len(ls))))

Count(c, ch, k) == Cardinality({ j \in 1..k : c[j] = ch })

\* opening minus closing braces among the first k characters
Balance(c, k) == Count(c, "{", k) - Count(c, "}", k)

\* the positions where the balance is zero after having been positive
Closings(c) ==
    { k \in 1..Len(c) : Balance(c, k) = 0 /\ \E j \in 1..(k - 1) : Balance(c, j) > 0 }

FirstOf(S) == CHOOSE k \in S : \A j \in S : k <= j

\* C19 (brace-balanced function removal): an unused-function or
\* unused-component finding whose target line exists deletes the lines from
\* its target line to the first line on which the balance of { and },
\* counted from the target line on, is zero after having been positive; when
\* there is no such line it fails with 'Could not determine function
\* boundaries' and the content is unchanged.
C19_BraceBalancedRemoval ==
    Removed({"unused-function", "unused-component"}) =>
        LET n == applyLog[1].issue.line
            c == TextFrom(applyLog[1].before, n)
        IN  IF Closings(c) # {}
            THEN Deleted(n, n + Count(c, "\n", FirstOf(Closings(c))))
            ELSE Refused("Could not determine function boundaries")

C19_Witness ==
    /\ Removed({"unused-function", "unused-component"})
    /\ applyLog[1].issue.line = 1
    /\ Split(applyLog[1].before) = <<FuncF, FuncFInline, Close>>
    /\ disk["a.ts"] = <<>>

----------------------------------------------------------------------------
(* One DeadCodeAnalyzer instance called several times *)

HistoryContents ==
    { Join(<<ImportAB, FuncFoo, Close>>),
      Join(<<ConstXY, ArrowG>>),
      Join(<<FuncFoo, ExportC>>),
      Join(<<Blank, Blank>>) }

InitHistory ==
    /\ \E c \in HistoryContents, d \in HistoryContents :
          disk = [g \in Files |-> IF g = "a.ts" THEN c ELSE d]
    /\ RemoverIdle
    /\ pc = "analyzer"
    /\ scanned = <<>>
    /\ lastIndex = [rx \in Regexes |-> 0]
    /\ calls = 0
    /\ prompts = <<>>
    /\ ExtensionIdle

SpecHistory == InitHistory /\ [][NextAnalyzer]_vars

\* C20 (history independence of the scanner): whatever calls the instance
\* served before and however they ended, a call that reads its file returns
\* the findings a fresh instance returns for that path and content, and a
\* call that reaches its sub-scans starts them with every shared cursor at 0.
C20_HistoryIndependence ==
    (scanned # <<>> /\ scanned.outcome \in {"returned", "threw"}) =>
        /\ scanned.outcome = "returned" =>
              scanned.issues = analyzeFile(scanned.filePath, scanned.content,
                                           [rx \in Regexes |-> 0])
        /\ Trim(scanned.content) # <<>> =>
              \A rx \in Regexes : scanned.start[rx] = 0

C20_Witness ==
    /\ calls = MaxCalls
    /\ scanned # <<>> /\ scanned.outcome = "returned"
    /\ scanned.entry["function"] # 0 /\ scanned.entry["export"] # 0
    /\ \E i, j \in DOMAIN scanned.issues :
          /\ scanned.issues[i].type = "unused-function"
          /\ scanned.issues[j].type = "unused-import"

----------------------------------------------------------------------------
(* Properties of the driver loop of removeDeadCode *)

\* the run ended because the token was seen cancelled
Interrupted == pc = "done" /\ ~result.success

\* a step taken at the head of the loop with the token cancelled ends the
\* run without any file system call; a step taken inside a file never does
C22_Step ==
    /\ (pc = "loop" /\ cancelled) =>
          /\ pc' = "done"
          /\ ioLog' = ioLog /\ disk' = disk /\ backups' = backups
          /\ applyLog' = applyLog /\ queue' = queue
          /\ result' = [result EXCEPT !.success = (queue = <<>>)]
    /\ pc = "file" => (pc' # "done" /\ result'.success)

\* where an interrupted run stands
C22_Interrupted ==
    Interrupted =>
        /\ cancelled /\ queue # <<>> /\ cur = NoFile
        /\ \A f \in Range(queue) :
              /\ \A i \in DOMAIN ioLog : ioLog[i].filePath # f
              /\ AppliedTo(f) = {}
              /\ disk[f] = InitialDisk[f]
              /\ \A k \in DOMAIN backups : backups[k].filePath # f
        /\ \A f \in Files : \A w \in Written(f) : disk[f] = ioLog[w].content
        /\ \A f \in Files :
              AppliedTo(f) # {} =>
                  Cardinality(AppliedTo(f)) = Len(IssuesOf(Filtered, f))
        /\ result.removedCount =
              Cardinality({ k \in DOMAIN applyLog : applyLog[k].success })
        /\ Len(result.errors) >=
              Cardinality({ k \in DOMAIN applyLog : ~applyLog[k].success })

\* C22 (cancellation between files): the token is looked at only at the
\* head of the loop over the files; once it is seen cancelled the run ends
\* with success = false and the counts and errors collected so far, no file
\* still in the iteration order is read, backed up or written, every file
\* begun before had all its findings evaluated and keeps what was written
\* to it.
C22_CancellationBetweenFiles == [][C22_Step]_vars /\ []C22_Interrupted

C22_Witness ==
    /\ Interrupted
    /\ queue = <<"b.tsx">>
    /\ Written("a.ts") # {} /\ disk["a.ts"] # InitialDisk["a.ts"]
    /\ Cardinality(AppliedTo("a.ts")) = 1
    /\ result.removedCount = 1 /\ result.modifiedFiles = <<"a.ts">>

\* the prompts shown for file f
Answers(f) == { p \in DOMAIN prompts : prompts[p].filePath = f }

\* file f was approved with 'Yes, Remove'
Approved(f) == \E p \in Answers(f) : prompts[p].choice = "Yes, Remove"

\* a file system call is made for an approved file only; any other answer
\* moves on to the next file and touches nothing
C23_Step ==
    options.confirmEach =>
        /\ ioLog' # ioLog =>
              \E p \in DOMAIN prompts' :
                  prompts'[p] = [filePath |-> ioLog'[Len(ioLog')].filePath,
                                 choice |-> "Yes, Remove"]
        /\ (prompts' # prompts /\ prompts'[Len(prompts')].choice # "Yes, Remove") =>
              /\ prompts'[Len(prompts')].filePath = Head(queue)
              /\ queue' = Tail(queue) /\ pc' = "loop"
              /\ ioLog' = ioLog /\ disk' = disk /\ backups' = backups
              /\ applyLog' = applyLog /\ result' = result

C23_Files ==
    IF ~options.confirmEach THEN prompts = <<>>
    ELSE /\ \A f \in Files :
              /\ Cardinality(Answers(f)) <= 1
              /\ ~Approved(f) =>
                    /\ \A i \in DOMAIN ioLog : ioLog[i].filePath # f
                    /\ \A k \in DOMAIN backups : backups[k].filePath # f
                    /\ AppliedTo(f) = {}
                    /\ disk[f] = InitialDisk[f]
                    /\ f \notin Range(result.modifiedFiles)
         /\ (pc = "done" /\ result.success) =>
               \A f \in Range(FileOrder(Filtered)) : Answers(f) # {}

\* C23 (per-file confirmation): with confirmEach = true a file is read,
\* backed up or written only after its prompt was answered 'Yes, Remove';
\* after 'Skip File' or a dismissed prompt the file sees no file system call
\* and adds nothing to removedCount, modifiedFiles or errors, and the run
\* goes on to the next file; without confirmEach no prompt is shown.
C23_PerFileConfirmation == [][C23_Step]_vars /\ []C23_Files

C23_Witness ==
    /\ options.confirmEach /\ ~options.dryRun
    /\ pc = "done"
    /\ prompts = <<[filePath |-> "b.tsx", choice |-> "undefined"],
                   [filePath |-> "a.ts", choice |-> "Yes, Remove"]>>
    /\ Written("a.ts") # {}

\* the error entry of a file whose read, backup or write threw
FileError == <<"File processing error", "io">>

\* the error entry of the outer catch
GeneralError == <<"General error", "fatal">>

\* a step on which a file system call throws: the file in hand is left with
\* one more error entry, the next file is up, the run is not failed
C24_Step ==
    (ioLog' # ioLog /\ ~ioLog'[Len(ioLog')].ok) =>
        /\ ioLog'[Len(ioLog')].filePath = Head(queue)
        /\ queue' = Tail(queue) /\ pc' = "loop" /\ cur' = NoFile
        /\ result'.success = result.success
        /\ result'.errors = result.errors \o cur.fileResult.errors \o <<FileError>>
        /\ disk' = disk

C24_Run ==
    /\ Cardinality({ e \in DOMAIN result.errors : result.errors[e] = FileError })
          = Cardinality({ i \in DOMAIN ioLog : ~ioLog[i].ok })
    /\ \A f \in Files : Cardinality({ i \in DOMAIN ioLog :
                                        ioLog[i].filePath = f /\ ~ioLog[i].ok }) <= 1
    /\ ~result.success =>
          /\ pc = "done"
          /\ \/ cancelled /\ queue # <<>>
             \/ result.errors # <<>> /\ result.errors[Len(result.errors)] = GeneralError
    /\ (pc = "done" /\ result.success /\ ~options.confirmEach) =>
          \A f \in Range(FileOrder(Filtered)) :
              \E i \in DOMAIN ioLog : ioLog[i].filePath = f

\* C24 (per-file I/O error isolation): when the read of a file, the write of
\* its backup or the write of the file throws, that file alone is abandoned
\* with one error entry for it, the files after it are still processed and
\* success stays true; success = false comes only from the outer catch (or
\* from a cancellation that was seen).
C24_IoErrorIsolation == [][C24_Step]_vars /\ []C24_Run

C24_Witness ==
    /\ pc = "done" /\ result.success
    /\ queue = <<>>
    /\ \E i \in IoOf("b.tsx", "read") : ~ioLog[i].ok
    /\ \E r \in IoOf("b.tsx", "read"), w \in Written("a.ts") : r < w
    /\ result.errors = <<FileError>>

\* C26 (findings sharing a line), as claimed: when two different findings of
\* a file have the same line number and the first one applied deleted that
\* line, the later one deletes nothing.
C26_SharedLine ==
    \A j, k \in DOMAIN applyLog :
        (/\ j < k
         /\ applyLog[j].issue # applyLog[k].issue
         /\ applyLog[j].issue.filePath = applyLog[k].issue.filePath
         /\ applyLog[j].issue.line = applyLog[k].issue.line
         /\ applyLog[j].success) =>
            applyLog[k].after = applyLog[k].before

\* the names of the per-finding error entries of the result, in order
FindingErrors ==
    LET es == SelectSeq(result.errors,
                        LAMBDA e : e # FileError /\ e # GeneralError)
    IN  [i \in DOMAIN es |-> es[i][1]]

\* the names of the findings whose removal failed, in the order applied
FailedNames ==
    LET fs == SelectSeq(applyLog, LAMBDA a : ~a.success)
    IN  [i \in DOMAIN fs |-> fs[i].issue.name]

\* file f was read and left without a file-level error
Processed(f) ==
    /\ cur.filePath # f
    /\ IoOf(f, "read") # {}
    /\ \A i \in DOMAIN ioLog : ioLog[i].filePath = f => ioLog[i].ok

\* C28 (result accounting): between two files and at the end of a run,
\* every file processed without a file-level error had each of its filtered
\* findings either removed or entered as an error; removedCount is the
\* number of successful removals over all files; a file stands in
\* modifiedFiles at most once, and exactly when one of its findings was
\* removed, in dry runs too.
C28_ResultAccounting ==
    pc \in {"loop", "done"} =>
        /\ \A f \in Files :
              Processed(f) =>
                  /\ Cardinality(AppliedTo(f)) = Len(IssuesOf(Filtered, f))
                  /\ Cardinality(RemovedFrom(f))
                       + Cardinality({ k \in AppliedTo(f) : ~applyLog[k].success })
                       = Len(IssuesOf(Filtered, f))
        /\ FindingErrors = FailedNames
        /\ result.removedCount =
              Cardinality({ k \in DOMAIN applyLog : applyLog[k].success })
        /\ \A i, j \in DOMAIN result.modifiedFiles :
              result.modifiedFiles[i] = result.modifiedFiles[j] => i = j
        /\ \A f \in Files :
              f \in Range(result.modifiedFiles) <=> RemovedFrom(f) # {}

C28_Witness ==
    /\ pc = "done" /\ options.dryRun
    /\ result.removedCount = 2
    /\ result.modifiedFiles = <<"b.tsx", "a.ts">>

\* C29 (reported modifications match the disk), as claimed: in a run that
\* is not dry, a file stands in modifiedFiles only if its modified content
\* was written, and removedCount counts the removals of written files only.
C29_ReportedMatchesDisk ==
    (pc = "done" /\ ~options.dryRun) =>
        /\ \A f \in Range(result.modifiedFiles) : Written(f) # {}
        /\ result.removedCount =
              Cardinality({ k \in DOMAIN applyLog :
                              /\ applyLog[k].success
                              /\ Written(applyLog[k].issue.filePath) # {} })


\* the finding's target line holds an opening brace
OpensBlock == \E k \in DOMAIN TargetText : TargetText[k] = "{"

\* C30 (function removal stays inside the declaration), as claimed: an
\* unused-function or unused-component finding whose target line holds no {
\* fails and leaves the content unchanged; one whose target line opens a
\* block deletes no line after the line that closes that block.
C30_InsideDeclaration ==
    Removed({"unused-function", "unused-component"}) =>
        LET n == applyLog[1].issue.line
            c == TextFrom(applyLog[1].before, n)
        IN  IF ~OpensBlock
            THEN ~applyLog[1].success /\ applyLog[1].after = applyLog[1].before
            ELSE applyLog[1].success =>
                     \E m \in n..(n + Count(c, "\n", FirstOf(Closings(c)))) :
                         applyLog[1].after = WithoutLines(applyLog[1].before, n, m)


----------------------------------------------------------------------------
(* The commands of the extension: findDeadCode fills the cache of findings, *)
(* the three removal commands hand it to removeDeadCode                     *)

MaxCommands == 3

\* the source files of the workspace in the order of localeCompare
PathOrder == <<"a.ts", "b.tsx">>

\* the files of the directories that could be read, sorted
collectProjectFiles(found) == SelectSeq(PathOrder, LAMBDA f : f \in found)

\* a command handler is entered
Command(name, choice) ==
    cmd' = [cmd EXCEPT !.name = name, !.choice = choice, !.count = @ + 1]

\* what no step of findDeadCode touches
ScanFrame ==
    UNCHANGED <<disk, backups, issues, options, result, queue, cur, cancelled,
                ioLog, applyLog, prompts>>

\* lines 22-40: the command is invoked and the files are collected
FindDeadCode ==
    /\ pc = "menu" /\ cmd.count < MaxCommands
    /\ Command("findDeadCode", "")
    /\ \E found \in SUBSET Files :
          finder' = [NoScan EXCEPT !.files = collectProjectFiles(found)]
    /\ pc' = "collected"
    /\ ScanFrame
    /\ UNCHANGED <<scanned, lastIndex, calls, lastAnalysisResults>>

\* lines 22-40 and 131-134: collectProjectFiles throws, there is no
\* workspace folder
FindDeadCodeFails ==
    /\ pc = "menu" /\ cmd.count < MaxCommands
    /\ Command("findDeadCode", "")
    /\ pc' = "menu"
    /\ ScanFrame
    /\ UNCHANGED <<scanned, lastIndex, calls, lastAnalysisResults, finder>>

\* the user presses Cancel on the progress notification of the scan
ScanCancelled ==
    /\ pc \in {"collected", "scanning"}
    /\ ~finder.token
    /\ finder' = [finder EXCEPT !.token = TRUE]
    /\ ScanFrame
    /\ UNCHANGED <<pc, scanned, lastIndex, calls, lastAnalysisResults, cmd>>

\* the cache assigned on an early return
ScanReturns_Store ==
    /\ \/ pc = "collected" /\ (finder.token \/ finder.files = <<>>)
       \/ pc = "scanning" /\ finder.token /\ finder.files # <<>>
    /\ pc' = "menu"
    /\ finder' = NoScan
    /\ lastAnalysisResults' = finder.allIssues
    /\ ScanFrame
    /\ UNCHANGED <<scanned, lastIndex, calls, cmd>>

\* lines 42-44, 53-57 and 72-75: the token is seen cancelled before the
\* loop or at its head, or no file was collected
ScanReturns ==
    /\ \/ pc = "collected" /\ (finder.token \/ finder.files = <<>>)
       \/ pc = "scanning" /\ finder.token /\ finder.files # <<>>
    /\ pc' = "menu"
    /\ finder' = NoScan
    /\ ScanFrame
    /\ UNCHANGED <<scanned, lastIndex, calls, lastAnalysisResults, cmd>>

\* lines 59-70: the loop over the files is entered
ScanBegins ==
    /\ pc = "collected" /\ ~finder.token /\ finder.files # <<>>
    /\ pc' = "scanning"
    /\ ScanFrame
    /\ UNCHANGED <<scanned, lastIndex, calls, lastAnalysisResults, finder, cmd>>

\* lines 63-66, 78-82 and 131-134: no workspace folder is found, or a call
\* of the loop body throws; the outer catch reports the failure
ScanFails ==
    /\ \/ pc = "collected" /\ ~finder.token /\ finder.files # <<>>
       \/ pc = "scanning" /\ ~finder.token /\ finder.files # <<>>
    /\ pc' = "menu"
    /\ finder' = NoScan
    /\ ScanFrame
    /\ UNCHANGED <<scanned, lastIndex, calls, lastAnalysisResults, cmd>>

\* lines 71-94: one file is analysed and its findings are pushed
ScanFile ==
    /\ pc = "scanning" /\ finder.files # <<>> /\ ~finder.token
    /\ LET f == Head(finder.files)
           found == analyzeFile(f, disk[f], lastIndex)
       IN  /\ finder' = [finder EXCEPT
                            !.files = Tail(@),
                            !.allIssues = @ \o found,
                            !.analyzed = Append(@, [filePath |-> f,
                                                    issues |-> found])]
           /\ scanned' = [filePath |-> f, content |-> disk[f],
                          issues |-> found]
           /\ lastIndex' = lastIndexAfter(f, disk[f], lastIndex)
    /\ calls' = calls + 1
    /\ ScanFrame
    /\ UNCHANGED <<pc, lastAnalysisResults, cmd>>

\* lines 97-129: the loop has ended; the findings are stored and reported
ScanCompletes ==
    /\ pc = "scanning" /\ finder.files = <<>>
    /\ lastAnalysisResults' = finder.allIssues
    /\ pc' = "menu"
    /\ finder' = NoScan
    /\ ScanFrame
    /\ UNCHANGED <<scanned, lastIndex, calls, cmd>>

\* the handler returns without calling removeDeadCode
Stay ==
    /\ pc' = "menu"
    /\ UNCHANGED <<disk, backups, issues, options, result, queue, cur,
                   cancelled, ioLog, applyLog, scanned, lastIndex, calls,
                   prompts, lastAnalysisResults, finder>>

\* deadCodeRemover.removeDeadCode(issues, options) is called with the cache
Call(opts) ==
    /\ issues' = lastAnalysisResults
    /\ options' = opts
    /\ pc' = "idle"
    /\ cancelled' = FALSE
    /\ ioLog' = <<>>
    /\ applyLog' = <<>>
    /\ prompts' = <<>>
    /\ UNCHANGED <<disk, backups, result, queue, cur, scanned, lastIndex,
                   calls, lastAnalysisResults, finder>>

SafeChoices == {"Yes, Remove Safely", "Dry Run First", "Cancel", "undefined"}

InteractiveChoices ==
    {"Yes, Start Interactive", "Dry Run First", "Cancel", "undefined"}

\* lines 676-702: removeDeadCodeSafeCommand
RemoveDeadCodeSafe ==
    /\ pc = "menu" /\ cmd.count < MaxCommands
    /\ IF Len(lastAnalysisResults) = 0 \/ Len(HighOnly(lastAnalysisResults)) = 0
       THEN Command("removeDeadCodeSafe", "") /\ Stay
       ELSE \E choice \in SafeChoices :
               /\ Command("removeDeadCodeSafe", choice)
               /\ IF choice = "Cancel" THEN Stay
                  ELSE Call([createBackup |-> TRUE, confirmEach |-> FALSE,
                             onlyHighConfidence |-> TRUE,
                             dryRun |-> (choice = "Dry Run First")])

\* lines 703-727: removeDeadCodeInteractiveCommand
RemoveDeadCodeInteractive ==
    /\ pc = "menu" /\ cmd.count < MaxCommands
    /\ IF Len(lastAnalysisResults) = 0
       THEN Command("removeDeadCodeInteractive", "") /\ Stay
       ELSE \E choice \in InteractiveChoices :
               /\ Command("removeDeadCodeInteractive", choice)
               /\ IF choice = "Cancel" THEN Stay
                  ELSE Call([createBackup |-> TRUE, confirmEach |-> TRUE,
                             onlyHighConfidence |-> FALSE,
                             dryRun |-> (choice = "Dry Run First")])

\* lines 728-741: removeDeadCodeDryRunCommand
RemoveDeadCodeDryRun ==
    /\ pc = "menu" /\ cmd.count < MaxCommands
    /\ Command("removeDeadCodeDryRun", "")
    /\ IF Len(lastAnalysisResults) = 0 THEN Stay
       ELSE Call([createBackup |-> FALSE, confirmEach |-> FALSE,
                  onlyHighConfidence |-> FALSE, dryRun |-> TRUE])

\* removeDeadCode has returned to the handler that awaited it; the call is
\* complete when no file was skipped and no error ended it or one of its
\* files
Return ==
    /\ pc = "done"
    /\ pc' = "menu"
    /\ cmd' = [cmd EXCEPT !.prior =
                  [made |-> TRUE, issues |-> issues, options |-> options,
                   complete |->
                       /\ result.success
                       /\ \A i \in DOMAIN ioLog : ioLog[i].ok
                       /\ \A i \in DOMAIN prompts :
                             confirmFileRemoval(prompts[i].choice)]]
    /\ UNCHANGED <<disk, backups, issues, options, result, queue, cur,
                   cancelled, ioLog, applyLog, scanned, lastIndex, calls,
                   prompts, lastAnalysisResults, finder>>

NextExtension ==
    \/ FindDeadCode
    \/ FindDeadCodeFails
    \/ ScanCancelled
    \/ ScanReturns
    \/ ScanBegins
    \/ ScanFails
    \/ ScanFile
    \/ ScanCompletes
    \/ RemoveDeadCodeSafe
    \/ RemoveDeadCodeInteractive
    \/ RemoveDeadCodeDryRun
    \/ Return
    \/ Start
    \/ Cancel
    \/ CancelBreak
    \/ SkipFile
    \/ ReadFails
    \/ BackupFails
    \/ BeginFile
    \/ RemoveIssue
    \/ FinishFile
    \/ WriteFails
    \/ Finish

----------------------------------------------------------------------------
(* Inputs of the command runs: a workspace of two files *)

ExtensionContents ==
    { Join(<<ImportC, ImportNS, CallFoo>>),
      Join(<<FuncFoo, Close, ConstXY>>),
      Join(<<Blank>>) }

InitExtension ==
    /\ \E c \in ExtensionContents :
          disk = [g \in Files |-> IF g = "a.ts" THEN c ELSE Join(<<ImportC>>)]
    /\ RemoverIdle
    /\ pc = "menu"
    /\ scanned = <<>>
    /\ lastIndex = [rx \in Regexes |-> 0]
    /\ calls = 0
    /\ prompts = <<>>
    /\ ExtensionIdle

SpecExtension == InitExtension /\ [][NextExtension]_vars


----------------------------------------------------------------------------
(* Properties of the commands *)

\* the findings of the files analysed so far, in the order analysed
Collected ==
    Flatten([i \in DOMAIN finder.analyzed |-> finder.analyzed[i].issues])

\* C21 (lifecycle of the cached scan results): a step changes
\* lastAnalysisResults only when it ends a scan whose loop over the files
\* ran to its end, and that step replaces it by the findings of the files
\* in the order they were analysed; the early returns of a scan (the token
\* seen cancelled, no files, failure) and every step of the removal commands
\* leave it as it was.
C21_Step ==
    /\ lastAnalysisResults' # lastAnalysisResults =>
          pc = "scanning" /\ finder.files = <<>> /\ pc' = "menu"
    /\ (pc = "scanning" /\ finder.files = <<>> /\ pc' = "menu") =>
          lastAnalysisResults' = Collected
    /\ (pc \in {"collected", "scanning"} /\ pc' = "menu"
        /\ (finder.files # <<>> \/ pc = "collected")) =>
          lastAnalysisResults' = lastAnalysisResults
    /\ pc \notin {"collected", "scanning"} =>
          lastAnalysisResults' = lastAnalysisResults

Affirmative == {"Yes, Remove Safely", "Yes, Start Interactive"}

\* C25 (explicit consent for real removal), as claimed: a step of the safe
\* or the interactive command calls removeDeadCode with dryRun = false only
\* when the affirmative option was chosen; with Cancel, with a dismissed
\* prompt and with an empty cache it returns without a call and changes no
\* file.
C25_Step ==
    (pc = "menu" /\ cmd'.count # cmd.count
     /\ cmd'.name \in {"removeDeadCodeSafe", "removeDeadCodeInteractive"}) =>
        /\ (pc' = "idle" /\ ~options'.dryRun) => cmd'.choice \in Affirmative
        /\ (cmd'.choice \in {"Cancel", "undefined"}
            \/ Len(lastAnalysisResults) = 0) =>
               pc' = "menu" /\ disk' = disk

C25_ExplicitConsent == [][C25_Step]_vars

\* C27 (idempotence of removal on cached findings), as claimed: in a call
\* of removeDeadCode that is not dry and follows a complete call that was
\* not dry and had the same filtered findings, no finding is removed.
C27_SecondRunRemovesNothing ==
    (/\ pc \in {"loop", "file", "done"}
     /\ ~options.dryRun
     /\ cmd.prior.made /\ cmd.prior.complete /\ ~cmd.prior.options.dryRun
     /\ filteredIssues(cmd.prior.issues, cmd.prior.options) = Filtered) =>
        \A k \in DOMAIN applyLog :
            ~applyLog[k].success /\ applyLog[k].after = applyLog[k].before

====
